---- MODULE Spec2Model ----
(***************************************************************************)
(* git-proxy: a guarding git proxy.                                        *)
(*                                                                         *)
(* The state machines of this module.                                      *)
(*   Spec      the HTTP server: requests, the per-repo lock (withLock),    *)
(*             the sync, and the git-http-backend child with its           *)
(*             pre-receive hook, on the JavaScript event loop (macrotasks  *)
(*             for I/O completions, a FIFO microtask queue for promise     *)
(*             continuations).                                             *)
(*   SpecPush  one run of the pre-receive hook: runPreReceiveHook and the  *)
(*             two passes of validateAndPush against a mirror and an       *)
(*             upstream repository.                                        *)
(*   SpecMirror  the mirror of one repo over a sequence of requests: the   *)
(*             sync, the reads, and the pushes with their hook runs, while *)
(*             other parties move upstream's branches.                     *)
(*                                                                         *)
(* Sources: server.ts is src/unnamed/part_000, utils.ts is                 *)
(* src/unnamed/part_001; hooks.ts, index.ts, git-backend.ts and config.ts  *)
(* are under src/src.                                                      *)
(***************************************************************************)
EXTENDS Integers, Sequences, FiniteSets, TLC

(***************************************************************************)
(* Bounds                                                                  *)
(***************************************************************************)
NumCalls == 3
MaxUpdates == 2
MaxPatterns == 3
MaxPieces == 5
MaxBytes == 7

(***************************************************************************)
(* Server state                                                            *)
(***************************************************************************)
VARIABLES
  locks,        \* utils.ts `locks`: repo -> the call whose promise is in the map, or NoCall
  waiters,      \* per promise (named by the call that created it): calls awaiting it, in order
  mq,           \* the microtask queue: calls whose continuation is ready to run
  pc,           \* per call: where its async function stands in handleGitRequest / withLock
  repoOf,       \* per call: the repo of the request
  kind,         \* per call: "fetch" (upload-pack) or "push" (receive-pack)
  synced,       \* per call: fetchFromOrigin succeeded inside this call's critical section
  child,        \* per call: the git-http-backend child process spawned for it
  outcome,      \* per call: how the action passed to withLock finished
  response,     \* per call: what the client of the request receives
  hookExit,     \* per call: exit code of the pre-receive hook run by its backend, or NoExit
  waitedOn      \* per call: the calls whose promise it has awaited (history)

srvVars == <<locks, waiters, mq, pc, repoOf, kind, synced, child, outcome, response,
             hookExit, waitedOn>>

Calls == 1..NumCalls
NoCall == 0
NoExit == 2
Repos == {"r1", "r2"}
NoRepo == "none"

\* state.config.repos is a plain object: a lookup finds the configured names and also
\* the properties every object inherits from Object.prototype (server.ts 122).
ObjectPrototypeKeys == {"constructor"}
\* A name that is neither configured nor inherited.
UnknownRepo == "zz"
\* The names that may come to be keys of the lock map.
LockNames == Repos \cup ObjectPrototypeKeys
Kinds == {"fetch", "push"}

\* The action handed to withLock by handleGitRequest (server.ts 135-149) is running:
\* from the call of fn to the settlement of its promise.
InAction == {"sync", "locate", "backend"}

\* The backend child is alive: spawned and not yet exited.
ChildAlive == {"running", "hook", "promote"}

SrvInit ==
  /\ locks = [r \in LockNames |-> NoCall]
  /\ waiters = [c \in Calls |-> <<>>]
  /\ mq = <<>>
  /\ pc = [c \in Calls |-> "idle"]
  /\ repoOf = [c \in Calls |-> NoRepo]
  /\ kind = [c \in Calls |-> "fetch"]
  /\ synced = [c \in Calls |-> FALSE]
  /\ child = [c \in Calls |-> "none"]
  /\ outcome = [c \in Calls |-> "none"]
  /\ response = [c \in Calls |-> "none"]
  /\ hookExit = [c \in Calls |-> NoExit]
  /\ waitedOn = [c \in Calls |-> {}]

(***************************************************************************)
(* withLock (utils.ts 58-82)                                               *)
(***************************************************************************)

\* A variant of LockKey with one lock for all repos.
LockKeyShared(r) == "r1"

\* utils.ts 63-79: the map is keyed by repoName (locks.has, get, set, delete).
LockKey(r) == r

\* A variant of MustWait that tests the map once, on entry, and not again after the await.
MustWaitOnce(r, resumed) == ~resumed /\ locks[LockKey(r)] # NoCall

\* utils.ts 63: `while (locks.has(repoName))`, evaluated on entry and after every await.
MustWait(r, resumed) == locks[LockKey(r)] # NoCall

\* utils.ts 63-77: the loop test; lock held: await its promise; lock free: put our
\* promise in the map and call fn, which runs synchronously up to its first await
\* (the spawn of `git fetch origin --prune`, server.ts 138 / 89).
Enter(c, r, resumed) ==
  IF MustWait(r, resumed)
  THEN /\ waiters' = [waiters EXCEPT ![locks[LockKey(r)]] = Append(@, c)]
       /\ waitedOn' = [waitedOn EXCEPT ![c] = @ \cup {locks[LockKey(r)]}]
       /\ pc' = [pc EXCEPT ![c] = "waiting"]
       /\ UNCHANGED locks
  ELSE /\ locks' = [locks EXCEPT ![LockKey(r)] = c]
       /\ pc' = [pc EXCEPT ![c] = "sync"]
       /\ UNCHANGED <<waiters, waitedOn>>

\* handleGitRequest (server.ts 108-135) for a configured repo: withLock is called
\* synchronously by the request handler.  Calls are numbered in arrival order.
Arrive(c, r, k) ==
  /\ pc[c] = "idle"
  /\ \A d \in Calls : d < c => pc[d] # "idle"
  /\ repoOf' = [repoOf EXCEPT ![c] = r]
  /\ kind' = [kind EXCEPT ![c] = k]
  /\ Enter(c, r, FALSE)
  /\ UNCHANGED <<mq, synced, child, outcome, response, hookExit>>

\* server.ts 122-123: `!repoConfig` for repoConfig = state.config.repos[repoName].
IsConfigured(name) == name \in Repos \cup ObjectPrototypeKeys

\* index.ts 204-207: a mirror exists for the own entries of config.repos.
HasMirror(name) == name \in Repos

\* server.ts 115-128: the two 404 responses, returned before withLock is called.
\* parsed: the repoName found by parseRepoFromPath, NoRepo if it returned null.
Refuse(c, parsed) ==
  /\ pc[c] = "idle"
  /\ \A d \in Calls : d < c => pc[d] # "idle"
  /\ pc' = [pc EXCEPT ![c] = "refused"]
  /\ repoOf' = [repoOf EXCEPT ![c] = parsed]
  /\ response' = [response EXCEPT ![c] =
       IF parsed = NoRepo THEN "404 Not Found - Invalid repo path"
       ELSE "404 Not Found - Unknown repo: " \o parsed]
  /\ UNCHANGED <<locks, waiters, mq, kind, synced, child, outcome, hookExit, waitedOn>>

\* handleGitRequest (server.ts 108-135) for any request path.
Route(c, parsed, k) ==
  IF parsed = NoRepo \/ ~IsConfigured(parsed)
  THEN Refuse(c, parsed)
  ELSE Arrive(c, parsed, k)

\* utils.ts 64-65: the continuation of `await locks.get(repoName)`: back to the loop test.
Resume ==
  /\ mq # <<>>
  /\ pc[Head(mq)] = "waiting"
  /\ mq' = Tail(mq)
  /\ Enter(Head(mq), repoOf[Head(mq)], TRUE)
  /\ UNCHANGED <<repoOf, kind, synced, child, outcome, response, hookExit>>

\* A variant of ReleasesOn in which the release is skipped when fn throws (no `finally`).
ReleasesOnReturnOnly(o) == o # "throw"

\* utils.ts 76-81: try { return await fn() } finally { delete; resolve }: every outcome releases.
ReleasesOn(o) == o \in {"ok", "sync500", "throw"}

\* A variant of RejectionResponse without the try/catch around handleGitRequest: the
\* rejection goes to the runtime.
RejectionResponseUncaught == "unhandled rejection"

\* server.ts 183-188: the catch block of createServer.fetch.
RejectionResponse == "500 Internal Server Error"

\* A variant of ResponseOf that answers a failed sync like any other failure.
ResponseOfPlain(o) ==
  IF o = "ok" THEN "backend" ELSE "500 Internal Server Error"

\* createServer.fetch (server.ts 183-188): the result of handleGitRequest is the
\* response; a rejection becomes the 500 `Internal Server Error`.
ResponseOf(o) ==
  CASE o = "ok" -> "backend"
    [] o = "sync500" -> "500 Internal Error - Failed to sync with upstream"
    [] o = "throw" -> RejectionResponse

\* utils.ts 77-81: the continuation of `await fn()`: the finally block, then the
\* result or the error goes to the caller.  resolve() queues the waiters' continuations
\* in the order in which they awaited the promise.
Release ==
  /\ mq # <<>>
  /\ pc[Head(mq)] = "settled"
  /\ LET c == Head(mq) IN
     /\ IF ReleasesOn(outcome[c])
        THEN /\ locks' = [locks EXCEPT ![LockKey(repoOf[c])] = NoCall]
             /\ mq' = Tail(mq) \o waiters[c]
             /\ waiters' = [waiters EXCEPT ![c] = <<>>]
        ELSE /\ mq' = Tail(mq)
             /\ UNCHANGED <<locks, waiters>>
     /\ pc' = [pc EXCEPT ![c] = "done"]
     /\ response' = [response EXCEPT ![c] = ResponseOf(outcome[c])]
  /\ UNCHANGED <<repoOf, kind, synced, child, outcome, hookExit, waitedOn>>

(***************************************************************************)
(* The action of handleGitRequest (server.ts 135-149)                      *)
(***************************************************************************)

\* fn has settled with outcome o: its promise resolves or rejects, which queues the
\* continuation of `await fn()` in withLock.
Settle(c, o) ==
  /\ pc' = [pc EXCEPT ![c] = "settled"]
  /\ outcome' = [outcome EXCEPT ![c] = o]
  /\ mq' = Append(mq, c)

\* A variant of AfterSync without the `return` in the catch block.
AfterSyncFallThrough(ok) == "locate"

\* server.ts 137-147: after fetchFromOrigin: on to the backend, or the 500 response.
AfterSync(ok) == IF ok THEN "locate" ELSE "settled"

\* fetchFromOrigin (server.ts 83-98) completes: `git fetch origin --prune` has exited;
\* it cannot succeed where there is no mirror.
SyncDone(c, ok) ==
  /\ mq = <<>>
  /\ pc[c] = "sync"
  /\ ok => HasMirror(repoOf[c])
  /\ synced' = [synced EXCEPT ![c] = ok]
  /\ IF AfterSync(ok) = "settled"
     THEN Settle(c, "sync500")
     ELSE /\ pc' = [pc EXCEPT ![c] = AfterSync(ok)]
          /\ UNCHANGED <<outcome, mq>>
  /\ UNCHANGED <<locks, waiters, repoOf, kind, child, response, hookExit, waitedOn>>

\* executeGitHttpBackend (git-backend.ts 137-154): findGitHttpBackend returns a path
\* and the backend is spawned, or it throws and the action rejects.
Locate(c, found) ==
  /\ mq = <<>>
  /\ pc[c] = "locate"
  /\ IF found
     THEN /\ pc' = [pc EXCEPT ![c] = "backend"]
          /\ child' = [child EXCEPT ![c] = "running"]
          /\ UNCHANGED <<outcome, mq>>
     ELSE /\ Settle(c, "throw")
          /\ UNCHANGED child
  /\ UNCHANGED <<locks, waiters, repoOf, kind, synced, response, hookExit, waitedOn>>

\* The backend child, serving a push, runs hooks/pre-receive, which execs
\* `git-proxy pre-receive <repo>` (index.ts 106-111, 121).
HookStart(c) ==
  /\ child[c] = "running"
  /\ kind[c] = "push"
  /\ child' = [child EXCEPT ![c] = "hook"]
  /\ UNCHANGED <<locks, waiters, mq, pc, repoOf, synced, kind, outcome, response,
                 hookExit, waitedOn>>

\* A variant of HookBlocked in which the hook takes the lock of its repo like a request:
\* it waits as long as the map has an entry for the repo.
HookBlockedByLock(c) == locks[LockKey(repoOf[c])] # NoCall

\* index.ts 121-164: runPreReceiveHook, in a process of its own, loads the config, reads
\* stdin and calls validateAndPush; it makes no call of withLock and no request to the
\* server, so no entry of the lock map holds it back.
HookBlocked(c) == FALSE

\* runPreReceiveHook ends with process.exit(code) (index.ts 131, 142, 158, 163); the
\* backend, which waited for it, goes on (promoting the local refs on 0).
HookExit(c, code) ==
  /\ child[c] = "hook"
  /\ ~HookBlocked(c)
  /\ hookExit' = [hookExit EXCEPT ![c] = code]
  /\ child' = [child EXCEPT ![c] = "promote"]
  /\ UNCHANGED <<locks, waiters, mq, pc, repoOf, synced, kind, outcome, response,
                 waitedOn>>

\* The backend child exits: at once for a fetch, after its hook for a push.
ChildExit(c) ==
  /\ \/ child[c] = "running" /\ kind[c] = "fetch"
     \/ child[c] = "promote"
  /\ child' = [child EXCEPT ![c] = "exited"]
  /\ UNCHANGED <<locks, waiters, mq, pc, repoOf, synced, kind, outcome, response,
                 hookExit, waitedOn>>

\* A variant of ProcExited that returns as soon as the child is spawned.
ProcSpawned(c) == child[c] # "none"

\* git-backend.ts 157-161: `await Promise.all([stdout, stderr, proc.exited])`.
ProcExited(c) == child[c] = "exited"

\* git-backend.ts 157-179: the child has exited; the CGI output becomes the response.
BackendExit(c) ==
  /\ mq = <<>>
  /\ pc[c] = "backend"
  /\ ProcExited(c)
  /\ Settle(c, "ok")
  /\ UNCHANGED <<locks, waiters, repoOf, kind, synced, child, response, hookExit,
                 waitedOn>>

\* The caller of a finished call comes back: its next request is a new call of
\* handleGitRequest (server.ts 108-135), which takes the place of the finished one.
Recycle(c) ==
  /\ pc[c] = "done"
  /\ pc' = [pc EXCEPT ![c] = "idle"]
  /\ repoOf' = [repoOf EXCEPT ![c] = NoRepo]
  /\ kind' = [kind EXCEPT ![c] = "fetch"]
  /\ synced' = [synced EXCEPT ![c] = FALSE]
  /\ child' = [child EXCEPT ![c] = "none"]
  /\ outcome' = [outcome EXCEPT ![c] = "none"]
  /\ response' = [response EXCEPT ![c] = "none"]
  /\ hookExit' = [hookExit EXCEPT ![c] = NoExit]
  /\ waitedOn' = [waitedOn EXCEPT ![c] = {}]
  /\ UNCHANGED <<locks, waiters, mq>>

(***************************************************************************)
(* Strings.  A string is the sequence of its characters; an object id is   *)
(* a number whose tens are its first eight hex characters (its short       *)
(* form) and whose units are the rest; 0 is the all-zero oid.              *)
(***************************************************************************)

\* hooks.ts 59
ZERO_SHA == 0

\* A variant of Short that keeps the whole oid.
ShortWhole(oid) == oid

\* `sha.slice(0, 8)` (hooks.ts 93, 244)
Short(oid) == oid \div 10

StartsWith(s, p) == Len(s) >= Len(p) /\ SubSeq(s, 1, Len(p)) = p
EndsWith(s, p) == Len(s) >= Len(p) /\ SubSeq(s, Len(s) - Len(p) + 1, Len(s)) = p
DropFirst(s, n) == SubSeq(s, n + 1, Len(s))
DropLast(s, n) == SubSeq(s, 1, Len(s) - n)

Slash == "/"
Star == "*"
RefsPrefix == <<"r", "e", "f", "s", "/">>
RefsHeads == RefsPrefix \o <<"h", "e", "a", "d", "s", "/">>
RefsTags == RefsPrefix \o <<"t", "a", "g", "s", "/">>
RefsRemotesOrigin == RefsPrefix \o <<"r", "e", "m", "o", "t", "e", "s", "/", "o", "r", "i", "g", "i", "n", "/">>

\* `s.replace(/^refs\/heads\//, "")` (hooks.ts 34, 261; utils.ts 180)
StripRefsHeads(s) == IF StartsWith(s, RefsHeads) THEN DropFirst(s, Len(RefsHeads)) ELSE s

(***************************************************************************)
(* Glob patterns (utils.ts 151-182)                                        *)
(***************************************************************************)

\* Bun's Glob.match as the repository uses it: `**` matches any characters, `*` any
\* characters but `/`, every other character itself; anchored at both ends.
RECURSIVE GlobMatch(_, _)
GlobMatch(p, s) ==
  IF p = <<>> THEN s = <<>>
  ELSE IF Len(p) >= 2 /\ p[1] = Star /\ p[2] = Star
       THEN \E k \in 0..Len(s) : GlobMatch(DropFirst(p, 2), DropFirst(s, k))
  ELSE IF p[1] = Star
       THEN \E k \in 0..Len(s) :
              /\ \A i \in 1..k : s[i] # Slash
              /\ GlobMatch(DropFirst(p, 1), DropFirst(s, k))
  ELSE s # <<>> /\ s[1] = p[1] /\ GlobMatch(DropFirst(p, 1), DropFirst(s, 1))

\* utils.ts 155-168: one pattern of matchesAnyPattern: `foo/` stands for `foo/**`
\* and also matches the bare `foo`.
MatchesPattern(path, pattern) ==
  LET trailing == EndsWith(pattern, <<Slash>>)
      normalizedPattern ==
        IF trailing /\ ~EndsWith(pattern, <<Star, Star, Slash>>)
        THEN DropLast(pattern, 1) \o <<Slash, Star, Star>>
        ELSE pattern
  IN \/ GlobMatch(normalizedPattern, path)
     \/ trailing /\ GlobMatch(DropLast(pattern, 1), path)

\* A variant of matchesAnyPattern that looks at the first pattern only.
matchesFirstPattern(path, patterns) ==
  patterns # <<>> /\ MatchesPattern(path, patterns[1])

\* utils.ts 151-170
matchesAnyPattern(path, patterns) ==
  \E i \in 1..Len(patterns) : MatchesPattern(path, patterns[i])

\* utils.ts 175-182
branchMatchesPattern(branch, patterns) ==
  matchesAnyPattern(StripRefsHeads(branch), patterns)

(***************************************************************************)
(* The objects of the mirror: a fixed commit graph with its trees.         *)
(*   CommitRoot     the root, the tip of main                              *)
(*   CommitFeature  CommitRoot + new file n                                *)
(*   CommitSneaky   CommitRoot + a change of g/c (g/ is protected)         *)
(*   CommitRevert   CommitSneaky + the revert of g/c + new file n          *)
(*   CommitOddName  CommitRoot + a new file under g/ whose name is a tab   *)
(***************************************************************************)
CommitRoot == 10
CommitFeature == 20
CommitSneaky == 30
CommitRevert == 31
CommitOddName == 40
Commits == {CommitRoot, CommitFeature, CommitSneaky, CommitRevert, CommitOddName}
Oids == Commits \cup {ZERO_SHA}

Parents(c) ==
  CASE c = CommitRoot -> {}
    [] c = CommitFeature -> {CommitRoot}
    [] c = CommitSneaky -> {CommitRoot}
    [] c = CommitRevert -> {CommitSneaky}
    [] c = CommitOddName -> {CommitRoot}

RECURSIVE Reachable(_)
\* the commits reachable from c, c included
Reachable(c) == {c} \cup UNION {Reachable(q) : q \in Parents(c)}

DQuote == "\""
Backslash == "\\"
Tab == "\t"

PathGC == <<"g", "/", "c">>
PathGTab == <<"g", "/", Tab>>
PathN == <<"n">>
\* the paths of the trees, in the order `git diff --name-only` lists them
Paths == <<PathGTab, PathGC, PathN>>

\* Tree(c)[path]: the version of the file at path in commit c (0: as in CommitRoot,
\* where g/<tab> and n do not exist)
Tree(c) ==
  CASE c = CommitRoot -> [p \in {PathGTab, PathGC, PathN} |-> 0]
    [] c = CommitFeature -> [p \in {PathGTab, PathGC, PathN} |-> IF p = PathN THEN 1 ELSE 0]
    [] c = CommitSneaky -> [p \in {PathGTab, PathGC, PathN} |-> IF p = PathGC THEN 1 ELSE 0]
    [] c = CommitRevert -> [p \in {PathGTab, PathGC, PathN} |-> IF p = PathN THEN 1 ELSE 0]
    [] c = CommitOddName -> [p \in {PathGTab, PathGC, PathN} |-> IF p = PathGTab THEN 1 ELSE 0]

\* `git merge-base --is-ancestor old new` exits 0 (hooks.ts 83-88)
IsAncestor(old, new) == old \in Commits /\ new \in Commits /\ old \in Reachable(new)

\* A variant of RevListNot without `--not base`: every commit reachable from new.
RevListAll(new, base) == Reachable(new)

\* `git rev-list new --not base` (hooks.ts 138-153): the commits the push introduces
RevListNot(new, base) == Reachable(new) \ Reachable(base)

\* A variant of ChangedPaths that collects the paths touched by any commit of the push.
ChangedPathsCumulative(base, new) ==
  SelectSeq(Paths, LAMBDA p : \E c \in Reachable(new) \ Reachable(base) :
                                \E q \in Parents(c) : Tree(q)[p] # Tree(c)[p])

\* The net diff of two commits: the paths whose content differs.
ChangedPaths(base, new) == SelectSeq(Paths, LAMBDA p : Tree(base)[p] # Tree(new)[p])

\* git prints a path that holds an unusual character (a double quote, a backslash, a
\* control character such as the tab) in C-style quoting: between double quotes, the
\* character escaped; every other path as it is.  hooks.ts 167-170 runs the diff
\* without -z, so this is the form validateProtectedPaths reads.
Unusual == {DQuote, Backslash, Tab}
EscapeChar(ch) ==
  CASE ch = DQuote -> <<Backslash, DQuote>>
    [] ch = Backslash -> <<Backslash, Backslash>>
    [] ch = Tab -> <<Backslash, "t">>
    [] OTHER -> <<ch>>
RECURSIVE EscapeAll(_)
EscapeAll(p) == IF p = <<>> THEN <<>> ELSE EscapeChar(Head(p)) \o EscapeAll(Tail(p))
QuotePath(p) ==
  IF \E i \in 1..Len(p) : p[i] \in Unusual
  THEN <<DQuote>> \o EscapeAll(p) \o <<DQuote>>
  ELSE p

\* `git diff --name-only base new` (hooks.ts 167-170): the lines of its output
DiffNameOnly(base, new) ==
  [i \in 1..Len(ChangedPaths(base, new)) |-> QuotePath(ChangedPaths(base, new)[i])]

(***************************************************************************)
(* Policy checks of pass 1 (hooks.ts 25-249)                               *)
(***************************************************************************)

Allowed(msg) == [allowed |-> TRUE, message |-> msg, isForcePush |-> {}]
Rejected(msg) == [allowed |-> FALSE, message |-> msg, isForcePush |-> {}]

\* A variant of validateBranch without the test of the refs/heads/ prefix.
validateBranchAnyRef(refName, config) ==
  LET branchName == StripRefsHeads(refName) IN
    IF config.allowed_branches # {}
    THEN LET patterns == CHOOSE ps \in config.allowed_branches : TRUE IN
         IF ~branchMatchesPattern(branchName, patterns)
         THEN Rejected(<<"Branch is not in allowed list", branchName, patterns>>)
         ELSE Allowed(<<"Branch allowed">>)
    ELSE IF config.blocked_branches # {}
    THEN LET patterns == CHOOSE ps \in config.blocked_branches : TRUE IN
         IF branchMatchesPattern(branchName, patterns)
         THEN Rejected(<<"Branch is blocked", branchName, patterns>>)
         ELSE Allowed(<<"Branch allowed">>)
    ELSE Allowed(<<"Branch allowed">>)

\* hooks.ts 25-53.  An optional list of the config is the set of zero or one lists.
validateBranch(refName, config) ==
  IF ~StartsWith(refName, RefsHeads)
  THEN Rejected(<<"Only branch pushes allowed (refs/heads/*), got: ", refName>>)
  ELSE LET branchName == StripRefsHeads(refName) IN
    IF config.allowed_branches # {}
    THEN LET patterns == CHOOSE ps \in config.allowed_branches : TRUE IN
         IF ~branchMatchesPattern(branchName, patterns)
         THEN Rejected(<<"Branch is not in allowed list", branchName, patterns>>)
         ELSE Allowed(<<"Branch allowed">>)
    ELSE IF config.blocked_branches # {}
    THEN LET patterns == CHOOSE ps \in config.blocked_branches : TRUE IN
         IF branchMatchesPattern(branchName, patterns)
         THEN Rejected(<<"Branch is blocked", branchName, patterns>>)
         ELSE Allowed(<<"Branch allowed">>)
    ELSE Allowed(<<"Branch allowed">>)

\* hooks.ts 61-101
validateForcePush(update, config) ==
  IF update.oldSha = ZERO_SHA THEN Allowed(<<"New branch creation">>)
  ELSE IF update.newSha = ZERO_SHA
  THEN IF config.force_push = "deny"
       THEN Rejected(<<"Branch deletion is not allowed (force_push: deny)">>)
       ELSE Allowed(<<"Branch deletion allowed">>)
  ELSE IF ~IsAncestor(update.oldSha, update.newSha)
  THEN IF config.force_push = "deny"
       THEN Rejected(<<"Force push detected and not allowed", Short(update.oldSha),
                       Short(update.newSha)>>)
       ELSE [allowed |-> TRUE, message |-> <<"Force push allowed">>, isForcePush |-> {TRUE}]
  ELSE [allowed |-> TRUE, message |-> <<"Push is fast-forward">>, isForcePush |-> {FALSE}]

\* hooks.ts 184-205
checkChangedFiles(diffOutput, protectedPaths) ==
  LET violations == SelectSeq(diffOutput, LAMBDA f : matchesAnyPattern(f, protectedPaths)) IN
  IF Len(violations) > 0
  THEN Rejected(<<"Changes to protected paths detected", violations>>)
  ELSE Allowed(<<"No protected path violations">>)

\* A variant of validateProtectedPaths that resolves the base branch before anything else.
validateProtectedPathsBaseFirst(update, config, origin) ==
  IF origin[config.base_branch] = ZERO_SHA
  THEN Rejected(<<"Base branch not found. Cannot validate protected paths.",
                  config.base_branch>>)
  ELSE IF Len(config.protected_paths) = 0 THEN Allowed(<<"No protected paths configured">>)
  ELSE IF update.newSha = ZERO_SHA THEN Allowed(<<"Branch deletion - no path check needed">>)
  ELSE IF RevListNot(update.newSha, origin[config.base_branch]) = {}
  THEN Allowed(<<"No new commits to check">>)
  ELSE checkChangedFiles(DiffNameOnly(origin[config.base_branch], update.newSha),
                         config.protected_paths)

\* hooks.ts 107-182.  origin is the mirror's refs/remotes/origin/*: branch -> oid,
\* ZERO_SHA where the ref does not exist.
validateProtectedPaths(update, config, origin) ==
  IF Len(config.protected_paths) = 0 THEN Allowed(<<"No protected paths configured">>)
  ELSE IF update.newSha = ZERO_SHA THEN Allowed(<<"Branch deletion - no path check needed">>)
  ELSE IF origin[config.base_branch] = ZERO_SHA
  THEN Rejected(<<"Base branch not found. Cannot validate protected paths.",
                  config.base_branch>>)
  ELSE IF RevListNot(update.newSha, origin[config.base_branch]) = {}
  THEN Allowed(<<"No new commits to check">>)
  ELSE checkChangedFiles(DiffNameOnly(origin[config.base_branch], update.newSha),
                         config.protected_paths)

\* hooks.ts 215-249
checkUpstreamDivergence(update, origin) ==
  IF update.oldSha = ZERO_SHA THEN Allowed(<<"New branch - no divergence check">>)
  ELSE LET remoteSha == origin[StripRefsHeads(update.refName)] IN
    IF remoteSha = ZERO_SHA THEN Allowed(<<"Remote branch doesn't exist yet">>)
    ELSE IF remoteSha # update.oldSha
    THEN Rejected(<<"Upstream has diverged", Short(update.oldSha), Short(remoteSha)>>)
    ELSE Allowed(<<"Upstream in sync">>)

\* A variant of OrFalse that never reports a force push.
OrFalseNever(opt) == FALSE

\* hooks.ts 352: `forcePushResult.isForcePush ?? false`
OrFalse(opt) == opt = {TRUE}

\* hooks.ts 335-377: the body of the pass-1 loop for one update: the first failing
\* check gives the error of the update; an update passing all four is validated.
ValidateOne(update, config, origin) ==
  LET branchResult == validateBranch(update.refName, config)
      forcePushResult == validateForcePush(update, config)
      isForcePush == OrFalse(forcePushResult.isForcePush)
      divergenceResult == checkUpstreamDivergence(update, origin)
      pathResult == validateProtectedPaths(update, config, origin)
  IN IF ~branchResult.allowed THEN [ok |-> FALSE, error |-> branchResult.message, isForcePush |-> FALSE]
     ELSE IF ~forcePushResult.allowed THEN [ok |-> FALSE, error |-> forcePushResult.message, isForcePush |-> FALSE]
     ELSE IF ~isForcePush /\ ~divergenceResult.allowed THEN [ok |-> FALSE, error |-> divergenceResult.message, isForcePush |-> FALSE]
     ELSE IF ~pathResult.allowed THEN [ok |-> FALSE, error |-> pathResult.message, isForcePush |-> FALSE]
     ELSE [ok |-> TRUE, error |-> <<>>, isForcePush |-> isForcePush]

\* The git commands pass 1 runs in the mirror for one update, in order.
\* hooks.ts 83-86: validateForcePush runs one command, when both oids are non-zero.
ForcePushCommands(update) ==
  IF update.oldSha = ZERO_SHA \/ update.newSha = ZERO_SHA THEN <<>> ELSE <<"merge-base">>

\* A variant of DivergenceCommands that refreshes the remote-tracking refs first.
DivergenceCommandsWithFetch(update) ==
  IF update.oldSha = ZERO_SHA THEN <<>> ELSE <<"fetch", "rev-parse">>

\* hooks.ts 230-232: checkUpstreamDivergence runs one command, for an existing branch.
DivergenceCommands(update) ==
  IF update.oldSha = ZERO_SHA THEN <<>> ELSE <<"rev-parse">>

\* hooks.ts 125-127, 138-141, 167-170: validateProtectedPaths runs up to three.
ProtectedPathsCommands(update, config, origin) ==
  IF Len(config.protected_paths) = 0 \/ update.newSha = ZERO_SHA THEN <<>>
  ELSE IF origin[config.base_branch] = ZERO_SHA THEN <<"rev-parse">>
  ELSE IF RevListNot(update.newSha, origin[config.base_branch]) = {}
  THEN <<"rev-parse", "rev-list">>
  ELSE <<"rev-parse", "rev-list", "diff">>

\* hooks.ts 335-377: the commands of one iteration of the pass-1 loop; a failing check
\* ends the iteration (`continue`).
Pass1Commands(update, config, origin) ==
  LET forcePushResult == validateForcePush(update, config)
      isForcePush == OrFalse(forcePushResult.isForcePush)
  IN IF ~validateBranch(update.refName, config).allowed THEN <<>>
     ELSE IF ~forcePushResult.allowed THEN ForcePushCommands(update)
     ELSE IF isForcePush
     THEN ForcePushCommands(update) \o ProtectedPathsCommands(update, config, origin)
     ELSE IF ~checkUpstreamDivergence(update, origin).allowed
     THEN ForcePushCommands(update) \o DivergenceCommands(update)
     ELSE ForcePushCommands(update) \o DivergenceCommands(update)
            \o ProtectedPathsCommands(update, config, origin)

\* What a git command run in the mirror does to refs/remotes/origin/*: merge-base,
\* rev-parse, rev-list and diff read the repository; fetch copies upstream's branches.
GitEffect(cmd, origin, up) ==
  IF cmd = "fetch" THEN [b \in DOMAIN origin |-> up[RefsHeads \o b]] ELSE origin
RECURSIVE GitEffects(_, _, _)
GitEffects(cmds, origin, up) ==
  IF cmds = <<>> THEN origin
  ELSE GitEffects(Tail(cmds), GitEffect(Head(cmds), origin, up), up)

\* A variant of formatRejectionMessage that reports the first error only.
formatFirstError(errs) ==
  <<<<"">>, <<"=====">>, <<"PUSH REJECTED">>, <<"=====">>, errs[1], <<"=====">>, <<"">>>>

\* hooks.ts 412-423
formatRejectionMessage(errs) ==
  <<<<"">>, <<"=====">>, <<"PUSH REJECTED">>, <<"=====">>>> \o errs \o <<<<"=====">>, <<"">>>>

(***************************************************************************)
(* The upstream push (hooks.ts 255-309)                                    *)
(***************************************************************************)

\* hooks.ts 261-278: the arguments of `git push`:
\*   delete  git push origin --delete <branch>
\*   force   git push --force origin <new>:refs/heads/<branch>
\*   plain   git push origin <new>:refs/heads/<branch>
PushArgs(update, forcePush) ==
  LET branchName == StripRefsHeads(update.refName) IN
  IF update.newSha = ZERO_SHA
  THEN [form |-> "delete", src |-> ZERO_SHA, dst |-> branchName]
  ELSE IF forcePush
  THEN [form |-> "force", src |-> update.newSha, dst |-> RefsHeads \o branchName]
  ELSE [form |-> "plain", src |-> update.newSha, dst |-> RefsHeads \o branchName]

\* `git push` as upstream answers it.  up: the refs of upstream, ref name -> oid
\* (ZERO_SHA: no such ref).  A destination that does not begin with refs/ is looked up
\* among the remote's branches and tags and must name exactly one existing ref; a
\* plain push must fast-forward; net: the transport worked.
ResolveDst(dst, up) ==
  IF StartsWith(dst, RefsPrefix) THEN {dst}
  ELSE {r \in DOMAIN up : up[r] # ZERO_SHA /\ r \in {RefsHeads \o dst, RefsTags \o dst}}

GitPush(args, up, net) ==
  LET targets == ResolveDst(args.dst, up)
      target == CHOOSE r \in targets : TRUE
      accepted ==
        /\ net
        /\ Cardinality(targets) = 1
        /\ args.form = "plain" => (up[target] = ZERO_SHA \/ IsAncestor(up[target], args.src))
  IN [success |-> accepted,
      target |-> IF accepted THEN targets ELSE {},
      up |-> IF accepted THEN [up EXCEPT ![target] = args.src] ELSE up,
      stderr |-> IF accepted THEN "To <upstream>"
                 ELSE IF ~net THEN "fatal: Could not read from remote repository"
                 ELSE IF Cardinality(targets) = 0 THEN "error: unable to delete: remote ref does not exist"
                 ELSE IF Cardinality(targets) > 1 THEN "error: dst refspec matches more than one"
                 ELSE "! [rejected] (non-fast-forward)"]

\* A variant of pushToUpstream that does not look at the exit code of `git push`.
pushIgnoringExit(res) == Allowed(<<"Successfully pushed to upstream">>)

\* hooks.ts 301-308: the result of pushToUpstream, from the result of `git push`.
pushToUpstream(res) ==
  IF ~res.success
  THEN Rejected(<<"Failed to push to upstream:", res.stderr>>)
  ELSE Allowed(<<"Successfully pushed to upstream">>)

\* After a successful push git moves the mirror's remote-tracking ref of the branch.
Tracking(origin, args, res) ==
  [b \in DOMAIN origin |->
     IF res.success /\ res.target = {RefsHeads \o b} THEN args.src ELSE origin[b]]

(***************************************************************************)
(* State of one run of the pre-receive hook                                *)
(***************************************************************************)
VARIABLES
  hpc,               \* where runPreReceiveHook / validateAndPush stands
  knownRepo,         \* config.repos[repoName] is defined (index.ts 127-129)
  stdin,             \* the hook's standard input: lines, each the list of its fields
  config,            \* the RepoConfig of the repo
  origin,            \* the mirror's refs/remotes/origin/*: branch -> oid
  upstream,          \* the refs of upstream: ref name -> oid
  upstream0,         \* the refs of upstream when the hook started (history)
  updates,           \* the parsed RefUpdates
  idx,               \* pass 1: the number of updates validated so far
  errors,            \* hooks.ts 325
  validatedUpdates,  \* hooks.ts 328
  pidx,              \* pass 2: the number of validated updates pushed so far
  trace,             \* history: the validations (with the error found, the oid of
                     \* origin/<base_branch> and the mirror's refs/remotes/origin/* at
                     \* that time) and the pushes, in order
  result,            \* what validateAndPush returned: zero or one ValidationResult
  exitCode           \* the exit code of the hook process, NoExit while it runs

hookVars == <<hpc, knownRepo, stdin, config, origin, upstream, upstream0, updates, idx,
              errors, validatedUpdates, pidx, trace, result, exitCode>>

Main == <<"m", "a", "i", "n">>
AgentX == <<"a", "/", "x">>
BranchNames == {Main, AgentX}
RefNames == {RefsHeads \o Main, RefsHeads \o AgentX, RefsTags \o AgentX}

\* The ref updates a client may send: for a branch every combination of old and new
\* oid (create, delete, fast-forward, force, both zero); for the tag a create and a delete.
OldOids == {ZERO_SHA, CommitRoot, CommitSneaky}
NewOids == {ZERO_SHA, CommitFeature, CommitSneaky, CommitRevert, CommitOddName}
Updates ==
  [oldSha : OldOids, newSha : NewOids, refName : {RefsHeads \o b : b \in BranchNames}]
  \cup {[oldSha |-> ZERO_SHA, newSha |-> CommitFeature, refName |-> RefsTags \o AgentX],
        [oldSha |-> CommitRoot, newSha |-> ZERO_SHA, refName |-> RefsTags \o AgentX]}

\* The update lists of a push: at most MaxUpdates updates, one per ref.
UpdateLists ==
  UNION {{us \in [1..n -> Updates] :
            \A i, j \in 1..n : i # j => us[i].refName # us[j].refName} : n \in 1..MaxUpdates}

PatAgentStar == <<"a", Slash, Star>>
PatProtectedDir == <<"g", Slash>>

Policy(allowed, blocked, protected, force) ==
  [allowed_branches |-> allowed, blocked_branches |-> blocked,
   protected_paths |-> protected, force_push |-> force, base_branch |-> Main]

\* The policies (config.ts 9-29: exactly one of the two branch lists is present,
\* force_push is deny or allow, base_branch defaults to main).
Policies ==
  { Policy({<<PatAgentStar>>}, {}, <<PatProtectedDir>>, "deny"),
    Policy({<<PatAgentStar>>}, {}, <<PatProtectedDir>>, "allow"),
    Policy({<<PatAgentStar, Main>>}, {}, <<>>, "allow"),
    Policy({<<PatAgentStar, Main>>}, {}, <<PatProtectedDir>>, "deny"),
    Policy({}, {<<Main>>}, <<>>, "deny"),
    Policy({}, {<<Main>>}, <<PatProtectedDir>>, "allow") }

\* Mirror and upstream when the hook starts.  The sync of the request has copied
\* upstream's branches to refs/remotes/origin/*; upstream may have moved since.
RefsOf(main, agentx, tag) ==
  (RefsHeads \o Main :> main) @@ (RefsHeads \o AgentX :> agentx) @@ (RefsTags \o AgentX :> tag)
OriginOf(main, agentx) == (Main :> main) @@ (AgentX :> agentx)

Envs ==
  { [origin |-> OriginOf(CommitRoot, ZERO_SHA),
     upstream |-> RefsOf(CommitRoot, ZERO_SHA, ZERO_SHA)],
    [origin |-> OriginOf(CommitRoot, CommitSneaky),
     upstream |-> RefsOf(CommitRoot, CommitSneaky, ZERO_SHA)],
    [origin |-> OriginOf(CommitRoot, CommitSneaky),
     upstream |-> RefsOf(CommitRoot, CommitFeature, ZERO_SHA)],
    [origin |-> OriginOf(CommitRoot, ZERO_SHA),
     upstream |-> RefsOf(CommitRoot, ZERO_SHA, CommitRoot)] }

(***************************************************************************)
(* The hook's standard input (index.ts 138-145, hooks.ts 429-446)          *)
(***************************************************************************)

\* A line is the list of its fields (what `line.split(" ")` gives), a field a string;
\* the empty line has one empty field.
EmptyLine == <<<<>>>>
IsBlank(line) == \A i \in 1..Len(line) : line[i] = <<>>

\* git writes `<old> <new> <ref>\n` per update: the text ends with an empty line.
LineOf(u) == <<<<u.oldSha>>, <<u.newSha>>, u.refName>>
Render(us) == [i \in 1..Len(us) |-> LineOf(us[i])] \o <<EmptyLine>>

RECURSIVE DropBlankHead(_)
DropBlankHead(lines) ==
  IF lines # <<>> /\ IsBlank(Head(lines)) THEN DropBlankHead(Tail(lines)) ELSE lines
RECURSIVE DropBlankLast(_)
DropBlankLast(lines) ==
  IF lines # <<>> /\ IsBlank(lines[Len(lines)]) THEN DropBlankLast(DropLast(lines, 1)) ELSE lines
RECURSIVE DropEmptyHead(_)
DropEmptyHead(line) ==
  IF line # <<>> /\ Head(line) = <<>> THEN DropEmptyHead(Tail(line)) ELSE line
RECURSIVE DropEmptyLast(_)
DropEmptyLast(line) ==
  IF line # <<>> /\ line[Len(line)] = <<>> THEN DropEmptyLast(DropLast(line, 1)) ELSE line

\* `text.trim()`: the white space (blanks and newlines) at both ends goes.
Trim(lines) ==
  LET body == DropBlankLast(DropBlankHead(lines)) IN
  IF body = <<>> THEN <<EmptyLine>>
  ELSE IF Len(body) = 1 THEN <<DropEmptyLast(DropEmptyHead(body[1]))>>
  ELSE <<DropEmptyHead(body[1])>> \o SubSeq(body, 2, Len(body) - 1)
       \o <<DropEmptyLast(body[Len(body)])>>

\* A variant of IsEmptyInput that tests the input as it came: `!stdin`.
IsEmptyInputUntrimmed(lines) == lines = <<EmptyLine>>

\* index.ts 140: `!stdin.trim()`
IsEmptyInput(lines) == Trim(lines) = <<EmptyLine>>

\* A variant of InputLines that drops the lines with a missing field as well.
InputLinesWellFormed(lines) ==
  SelectSeq(Trim(lines), LAMBDA l : l # EmptyLine /\ Len(l) >= 3 /\ l[1] # <<>> /\ l[2] # <<>> /\ l[3] # <<>>)

\* hooks.ts 430-433: trim, split on newlines, drop the empty lines
InputLines(lines) == SelectSeq(Trim(lines), LAMBDA l : l # EmptyLine)

\* hooks.ts 435-442: a field is missing (undefined) or empty
Missing(line, k) == Len(line) < k \/ line[k] = <<>>
Malformed(line) == Missing(line, 1) \/ Missing(line, 2) \/ Missing(line, 3)

\* hooks.ts 429-446: the updates, or an exception when a line is malformed
ParseThrows(lines) == \E i \in 1..Len(InputLines(lines)) : Malformed(InputLines(lines)[i])
parsePreReceiveInput(lines) ==
  [i \in 1..Len(InputLines(lines)) |->
     [oldSha |-> InputLines(lines)[i][1][1], newSha |-> InputLines(lines)[i][2][1],
      refName |-> InputLines(lines)[i][3]]]

\* Inputs git does not write: no input, white space only, lines with missing fields,
\* an empty line between two updates, a line of one blank before an update.
GoodLine == LineOf([oldSha |-> ZERO_SHA, newSha |-> CommitFeature, refName |-> RefsHeads \o AgentX])
OtherInputs ==
  { <<EmptyLine>>,
    <<<<<<>>, <<>>>>, EmptyLine>>,
    <<<<<<ZERO_SHA>>, <<CommitFeature>>>>, EmptyLine>>,
    <<GoodLine, <<<<ZERO_SHA>>>>, EmptyLine>>,
    <<GoodLine, <<<<>>, <<>>>>, GoodLine, EmptyLine>>,
    <<GoodLine, EmptyLine, EmptyLine>>,
    <<<<<<>>, <<>>>>, GoodLine, EmptyLine>> }

Inputs == {Render(us) : us \in UpdateLists} \cup OtherInputs

(***************************************************************************)
(* runPreReceiveHook (index.ts 121-164) and validateAndPush (hooks.ts      *)
(* 321-410)                                                                *)
(***************************************************************************)
NoResult == {}

HookIdle ==
  /\ hpc = "off" /\ knownRepo = TRUE /\ stdin = <<EmptyLine>>
  /\ config = Policy({<<PatAgentStar>>}, {}, <<>>, "deny")
  /\ origin = OriginOf(CommitRoot, ZERO_SHA)
  /\ upstream = RefsOf(CommitRoot, ZERO_SHA, ZERO_SHA)
  /\ upstream0 = upstream
  /\ updates = <<>> /\ idx = 0 /\ errors = <<>> /\ validatedUpdates = <<>> /\ pidx = 0
  /\ trace = <<>> /\ result = NoResult /\ exitCode = NoExit

\* The hook is about to run: a configured repo with any policy, any input and any
\* state of mirror and upstream, or a repo the config does not know.
HookInit ==
  /\ hpc = "start"
  /\ \/ /\ knownRepo = TRUE
        /\ stdin \in Inputs
        /\ config \in Policies
        /\ \E e \in Envs : origin = e.origin /\ upstream = e.upstream
     \/ /\ knownRepo = FALSE
        /\ stdin \in OtherInputs
        /\ config = Policy({<<PatAgentStar>>}, {}, <<>>, "deny")
        /\ origin = OriginOf(CommitRoot, ZERO_SHA)
        /\ upstream = RefsOf(CommitRoot, ZERO_SHA, ZERO_SHA)
  /\ upstream0 = upstream
  /\ updates = <<>> /\ idx = 0 /\ errors = <<>> /\ validatedUpdates = <<>> /\ pidx = 0
  /\ trace = <<>> /\ result = NoResult /\ exitCode = NoExit

Exit(code) == hpc' = "exited" /\ exitCode' = code

\* index.ts 121-151 (and 218-221: an exception ends the process with code 1).
HookBegin ==
  /\ hpc = "start"
  /\ IF ~knownRepo THEN Exit(1) /\ UNCHANGED updates
     ELSE IF IsEmptyInput(stdin) THEN Exit(0) /\ UNCHANGED updates
     ELSE IF ParseThrows(stdin) THEN Exit(1) /\ UNCHANGED updates
     ELSE /\ updates' = parsePreReceiveInput(stdin)
          /\ hpc' = "pass1"
          /\ UNCHANGED exitCode
  /\ UNCHANGED <<knownRepo, stdin, config, origin, upstream, upstream0, idx, errors,
                 validatedUpdates, pidx, trace, result>>

\* hooks.ts 330-378: one iteration of the pass-1 loop.
Validate ==
  /\ hpc = "pass1"
  /\ idx < Len(updates)
  /\ LET update == updates[idx + 1]
         v == ValidateOne(update, config, origin)
     IN /\ idx' = idx + 1
        /\ trace' = Append(trace, [op |-> "validate", i |-> idx + 1, update |-> update,
                                   args |-> <<>>, target |-> {}, success |-> v.ok,
                                   error |-> v.error,
                                   base |-> origin[config.base_branch],
                                   mirror |-> origin])
        /\ IF v.ok
           THEN /\ validatedUpdates' =
                     Append(validatedUpdates, [update |-> update, isForcePush |-> v.isForcePush,
                                               i |-> idx + 1])
                /\ UNCHANGED errors
           ELSE /\ errors' = Append(errors, v.error)
                /\ UNCHANGED validatedUpdates
        /\ origin' = GitEffects(Pass1Commands(update, config, origin), origin, upstream)
  /\ UNCHANGED <<hpc, knownRepo, stdin, config, upstream, upstream0, updates, pidx,
                 result, exitCode>>

\* A variant of Pass1Complete that leaves the loop after the first update.
Pass1CompleteEarly == idx >= 1

\* hooks.ts 330: the `for ... of updates` loop has run over every update.
Pass1Complete == idx = Len(updates)

\* A variant of GateRejects that rejects only when no update was validated.
GateRejectsIfNoneValid(errs) == Len(errs) > 0 /\ Len(validatedUpdates) = 0

\* hooks.ts 381: `errors.length > 0`
GateRejects(errs) == Len(errs) > 0

\* hooks.ts 380-388: the gate between the two passes.
Gate ==
  /\ hpc = "pass1"
  /\ Pass1Complete
  /\ IF GateRejects(errors)
     THEN /\ result' = {[allowed |-> FALSE, message |-> formatRejectionMessage(errors)]}
          /\ hpc' = "returned"
     ELSE /\ hpc' = "pass2"
          /\ UNCHANGED result
  /\ UNCHANGED <<knownRepo, stdin, config, origin, upstream, upstream0, updates, idx,
                 errors, validatedUpdates, pidx, trace, exitCode>>

\* A variant of StopsOnPushFailure that ignores the result of the push.
StopsNever(allowed) == FALSE

\* hooks.ts 396: `if (!pushResult.allowed)`
StopsOnPushFailure(allowed) == ~allowed

\* hooks.ts 389-404 with pushToUpstream (255-309): one iteration of the pass-2 loop.
Push(net) ==
  /\ hpc = "pass2"
  /\ pidx < Len(validatedUpdates)
  /\ LET v == validatedUpdates[pidx + 1]
         args == PushArgs(v.update, v.isForcePush)
         res == GitPush(args, upstream, net)
         pushResult == pushToUpstream(res)
     IN /\ upstream' = res.up
        /\ origin' = Tracking(origin, args, res)
        /\ trace' = Append(trace, [op |-> "push", i |-> v.i, update |-> v.update,
                                   args |-> args, target |-> res.target,
                                   success |-> res.success,
                                   error |-> IF res.success THEN <<>>
                                             ELSE <<"Failed to push to upstream:", res.stderr>>,
                                   base |-> ZERO_SHA, mirror |-> origin])
        /\ IF StopsOnPushFailure(pushResult.allowed)
           THEN /\ result' = {[allowed |-> FALSE,
                               message |-> formatRejectionMessage(<<pushResult.message>>)]}
                /\ hpc' = "returned"
                /\ UNCHANGED pidx
           ELSE /\ pidx' = pidx + 1
                /\ UNCHANGED <<result, hpc>>
  /\ UNCHANGED <<knownRepo, stdin, config, upstream0, updates, idx, errors,
                 validatedUpdates, exitCode>>

\* hooks.ts 406-409: every validated update was pushed.
Pass2Done ==
  /\ hpc = "pass2"
  /\ pidx = Len(validatedUpdates)
  /\ result' = {[allowed |-> TRUE, message |-> <<"All refs validated and pushed successfully">>]}
  /\ hpc' = "returned"
  /\ UNCHANGED <<knownRepo, stdin, config, origin, upstream, upstream0, updates, idx,
                 errors, validatedUpdates, pidx, trace, exitCode>>

\* A variant of ExitCodeOf that reports the rejection and still exits 0.
ExitCodeAlwaysZero(allowed) == 0

\* index.ts 155-163: process.exit(1) on a rejection, process.exit(0) otherwise.
ExitCodeOf(allowed) == IF allowed THEN 0 ELSE 1

\* index.ts 153-163
HookReturn ==
  /\ hpc = "returned"
  /\ Exit(ExitCodeOf((CHOOSE r \in result : TRUE).allowed))
  /\ UNCHANGED <<knownRepo, stdin, config, origin, upstream, upstream0, updates, idx,
                 errors, validatedUpdates, pidx, trace, result>>

SrvIdle ==
  /\ locks = [r \in LockNames |-> NoCall]
  /\ waiters = [c \in Calls |-> <<>>]
  /\ mq = <<>>
  /\ pc = [c \in Calls |-> "off"]
  /\ repoOf = [c \in Calls |-> NoRepo]
  /\ kind = [c \in Calls |-> "fetch"]
  /\ synced = [c \in Calls |-> FALSE]
  /\ child = [c \in Calls |-> "none"]
  /\ outcome = [c \in Calls |-> "none"]
  /\ response = [c \in Calls |-> "none"]
  /\ hookExit = [c \in Calls |-> NoExit]
  /\ waitedOn = [c \in Calls |-> {}]

(***************************************************************************)
(* The mirror of one repo over a sequence of requests                      *)
(***************************************************************************)
VARIABLES
  heads,      \* the mirror's refs/heads/*: branch -> oid (ZERO_SHA: no such branch)
  lastSync,   \* history: upstream's refs/heads/* as the last completed sync read them
  accepted,   \* history: per branch, the oid written by a push accepted since that sync
  mpc         \* "idle" between requests, "synced" after the sync, "hook" during a push

mirVars == <<heads, lastSync, accepted, mpc>>

HeadsOf(refs) == [b \in BranchNames |-> refs[RefsHeads \o b]]
NoneAccepted == [b \in BranchNames |-> {}]

\* index.ts 52 and 69-72: the mirror after initializeRepo's first fetch.
MirIdle ==
  /\ heads = HeadsOf(upstream)
  /\ lastSync = HeadsOf(upstream)
  /\ accepted = NoneAccepted
  /\ mpc = "idle"

\* git fetch origin: +refs/heads/*:refs/heads/* overwrites every branch upstream has
\* and leaves alone the branches upstream no longer has.
FetchHeadsKeepingStale(h, refs) ==
  [b \in BranchNames |-> IF refs[RefsHeads \o b] = ZERO_SHA THEN h[b] ELSE refs[RefsHeads \o b]]

\* server.ts 89: git fetch origin --prune also deletes the branches upstream no
\* longer has.
FetchHeads(h, refs) ==
  [b \in BranchNames |-> refs[RefsHeads \o b]]

\* Another party pushes to upstream, between two requests of the proxy.
ThirdParty(b, oid) ==
  /\ mpc = "idle"
  /\ upstream[RefsHeads \o b] # oid
  /\ upstream' = [upstream EXCEPT ![RefsHeads \o b] = oid]
  /\ UNCHANGED <<hpc, knownRepo, stdin, config, origin, upstream0, updates, idx, errors,
                 validatedUpdates, pidx, trace, result, exitCode>>
  /\ UNCHANGED mirVars

\* server.ts 133-143 with fetchFromOrigin (83-98): the sync that opens every request.
\* A failed sync answers the request and leaves the mirror as it was.
Sync(ok) ==
  /\ mpc = "idle"
  /\ IF ok
       THEN /\ heads' = FetchHeads(heads, upstream)
            /\ origin' = FetchHeads(origin, upstream)
            /\ lastSync' = HeadsOf(upstream)
            /\ accepted' = NoneAccepted
            /\ mpc' = "synced"
       ELSE UNCHANGED <<heads, origin, lastSync, accepted, mpc>>
  /\ UNCHANGED <<hpc, knownRepo, stdin, config, upstream, upstream0, updates, idx, errors,
                 validatedUpdates, pidx, trace, result, exitCode>>

\* server.ts 146-147: the backend serves a read (info/refs, git-upload-pack).
Serve ==
  /\ mpc = "synced"
  /\ mpc' = "idle"
  /\ UNCHANGED <<heads, lastSync, accepted>>
  /\ UNCHANGED hookVars

\* server.ts 146-147 and index.ts 106-111: the backend runs git-receive-pack, which
\* hands the ref updates of the push to the pre-receive hook.
StartPush(input) ==
  /\ mpc = "synced"
  /\ mpc' = "hook"
  /\ hpc' = "start"
  /\ stdin' = input
  /\ upstream0' = upstream
  /\ updates' = <<>> /\ idx' = 0 /\ errors' = <<>> /\ validatedUpdates' = <<>> /\ pidx' = 0
  /\ trace' = <<>> /\ result' = NoResult /\ exitCode' = NoExit
  /\ UNCHANGED <<knownRepo, config, origin, upstream>>
  /\ UNCHANGED <<heads, lastSync, accepted>>

\* git-receive-pack writes the refs of a push only if the pre-receive hook exited 0.
Promoted(code) == code = 0

\* git-receive-pack's ref transaction: an update is written if the ref still has the
\* old value the client named.
Written(h, us) ==
  [b \in BranchNames |->
     IF \E i \in DOMAIN us : us[i].refName = RefsHeads \o b /\ us[i].oldSha = h[b]
       THEN (CHOOSE u \in {us[i] : i \in DOMAIN us} :
               u.refName = RefsHeads \o b /\ u.oldSha = h[b]).newSha
       ELSE h[b]]

\* index.ts 155-163 seen from git-receive-pack: the hook has exited, the push is
\* accepted or refused, and the request is answered.
ReceivePack ==
  /\ mpc = "hook"
  /\ hpc = "exited"
  /\ heads' = IF Promoted(exitCode) THEN Written(heads, updates) ELSE heads
  /\ accepted' =
       [b \in BranchNames |->
          IF exitCode = 0 /\ Written(heads, updates)[b] # heads[b]
            THEN {Written(heads, updates)[b]} ELSE accepted[b]]
  /\ hpc' = "off"
  /\ mpc' = "idle"
  /\ UNCHANGED lastSync
  /\ UNCHANGED <<knownRepo, stdin, config, origin, upstream, upstream0, updates, idx,
                 errors, validatedUpdates, pidx, trace, result, exitCode>>

\* The pushes of the clients: every single update, and two batches of two.
MirrorPushes ==
  {Render(<<u>>) : u \in Updates}
  \cup {Render(<<[oldSha |-> ZERO_SHA, newSha |-> CommitFeature, refName |-> RefsHeads \o AgentX],
                 [oldSha |-> CommitRoot, newSha |-> CommitFeature, refName |-> RefsHeads \o Main]>>),
        Render(<<[oldSha |-> CommitRoot, newSha |-> CommitFeature, refName |-> RefsHeads \o Main],
                 [oldSha |-> ZERO_SHA, newSha |-> CommitSneaky, refName |-> RefsHeads \o AgentX]>>)}

\* What the other parties do to upstream: they advance main, and they create and
\* delete the agent's branch.
ThirdPartyOids(b) ==
  IF b = Main THEN {CommitRoot, CommitFeature} ELSE {ZERO_SHA, CommitSneaky}


(***************************************************************************)
(* Calls of the pure functions                                             *)
(***************************************************************************)
VARIABLES
  call,       \* the function called and its arguments
  ret         \* what it returned: empty until it returns, then the one value

fnVars == <<call, ret>>

NotCalled == [fn |-> "none"]
FnIdle == call = NotCalled /\ ret = {}

\* The ref names handed to validateBranch: branches (one of them named refs/heads/a/x,
\* one nested, one a bare directory name), a tag, and a name outside refs/.
BranchA == <<"a">>
BranchAXY == <<"a", Slash, "x", Slash, "y">>
BranchRefsHeadsAX == RefsHeads \o AgentX
ValidateBranchRefs ==
  {RefsHeads \o Main, RefsHeads \o AgentX, RefsHeads \o BranchA, RefsHeads \o BranchAXY,
   RefsHeads \o BranchRefsHeadsAX, RefsTags \o AgentX, AgentX, RefsRemotesOrigin \o Main}

\* The branch lists of a policy, the empty list among them.
PatStarStar == <<Star, Star>>
BranchLists ==
  {<<>>, <<PatAgentStar>>, <<PatAgentStar, Main>>, <<Main>>, <<PatStarStar>>,
   <<RefsHeads \o PatAgentStar>>, <<AgentX, BranchA>>}
BranchPolicies ==
  {Policy({l}, {}, <<>>, "deny") : l \in BranchLists}
  \cup {Policy({}, {l}, <<>>, "deny") : l \in BranchLists}

InitValidateBranch ==
  /\ SrvIdle /\ HookIdle /\ MirIdle
  /\ call \in [fn : {"validateBranch"}, refName : ValidateBranchRefs, config : BranchPolicies]
  /\ ret = {}

\* hooks.ts 25-53
CallValidateBranch ==
  /\ call.fn = "validateBranch"
  /\ ret = {}
  /\ ret' = {validateBranch(call.refName, call.config)}
  /\ UNCHANGED call

(***************************************************************************)
(* The environment of the upstream `git push`.  An environment is a        *)
(* function from variable names to values; a value is a string, written as *)
(* the sequence of its pieces (<<>> is the empty string).                  *)
(***************************************************************************)
EnvKeys == {"GIT_QUARANTINE_PATH", "PATH", "GIT_SSH_COMMAND", "GIT_SSH_KEY_PATH"}
EnvValues == {<<>>, <<"v">>}
NoEnv == [k \in {} |-> <<>>]
AmbientEnvs == UNION {[D -> EnvValues] : D \in SUBSET EnvKeys}

\* Object.assign(target, source)
ObjectAssign(target, source) ==
  [k \in DOMAIN target \cup DOMAIN source |-> IF k \in DOMAIN source THEN source[k] ELSE target[k]]

\* config.ts 95 and server.ts 23-51.  sshKeyPath: the set of zero or one strings.
setupSshEnv(ambient, configKeyPath) ==
  LET sshKeyPath == IF "GIT_SSH_KEY_PATH" \in DOMAIN ambient
                    THEN {ambient["GIT_SSH_KEY_PATH"]} ELSE configKeyPath
      truthy == sshKeyPath # {} /\ sshKeyPath # {<<>>}
  IN IF ~truthy /\ "GIT_SSH_COMMAND" \notin DOMAIN ambient THEN NoEnv
     ELSE IF truthy
     THEN [k \in {"GIT_SSH_COMMAND"} |->
             <<"ssh -i ">> \o (CHOOSE x \in sshKeyPath : TRUE)
             \o <<" -o StrictHostKeyChecking=accept-new -o UserKnownHostsFile=/dev/null">>]
     ELSE NoEnv

\* hooks.ts 284-293
cleanEnv(ambient, sshEnv) ==
  ObjectAssign([k \in DOMAIN ambient \ {"GIT_QUARANTINE_PATH"} |-> ambient[k]], sshEnv)

\* A variant of finalEnv that merges env into process.env whatever fullEnv says.
finalEnvMerged(ambient, env, fullEnv) == ObjectAssign(ambient, env)

\* utils.ts 108-119: the environment git() gives to the process it spawns.
finalEnv(ambient, env, fullEnv) ==
  IF fullEnv THEN env ELSE ObjectAssign(ambient, env)

InitEnv ==
  /\ SrvIdle /\ HookIdle /\ MirIdle
  /\ call \in [fn : {"pushToUpstream"}, ambient : AmbientEnvs, ssh_key_path : {{}, {<<"k">>}}]
  /\ ret = {}

\* index.ts 135 and hooks.ts 282-299: the environment of the `git push` process.
CallPushEnv ==
  /\ call.fn = "pushToUpstream"
  /\ ret = {}
  /\ ret' = {finalEnv(call.ambient,
                      cleanEnv(call.ambient, setupSshEnv(call.ambient, call.ssh_key_path)),
                      TRUE)}
  /\ UNCHANGED call

(***************************************************************************)
(* loadConfig (config.ts 9-71).  A field of the JSON text of a repo is     *)
(* absent, null, or has a value.                                           *)
(***************************************************************************)
Absent == [kind |-> "absent", value |-> <<>>]
Null == [kind |-> "null", value |-> <<>>]
Value(v) == [kind |-> "value", value |-> v]

RawLists == {Absent, Null, Value(<<>>), Value(<<PatAgentStar>>), Value(<<Main>>)}
RawForcePush == {Absent, Value(<<"deny">>), Value(<<"allow">>), Value(<<"sometimes">>)}
RawUpstream == {Absent, Value(<<>>), Value(<<"git@host:repo.git">>)}
RawRepos == [upstream : RawUpstream, allowed_branches : RawLists, blocked_branches : RawLists,
             force_push : RawForcePush]

\* z.array(z.string()).optional() (config.ts 15-16): the set of zero or one lists.
Optional(field) == IF field.kind = "value" THEN {field.value} ELSE {}

\* config.ts 10-20: the issues of the object schema.
ObjectIssues(raw) ==
  (IF raw.upstream.kind # "value" THEN {"upstream: Required"}
   ELSE IF raw.upstream.value = <<>> THEN {"upstream: upstream URL is required"} ELSE {})
  \cup (IF raw.allowed_branches.kind = "null" THEN {"allowed_branches: Expected array"} ELSE {})
  \cup (IF raw.blocked_branches.kind = "null" THEN {"blocked_branches: Expected array"} ELSE {})
  \cup (IF raw.force_push.kind = "value" /\ raw.force_push.value \notin {<<"deny">>, <<"allow">>}
        THEN {"force_push: Invalid enum value"} ELSE {})

\* A variant of RefineIssues without the second refinement.
RefineIssuesNotBoth(allowed, blocked) ==
  IF allowed # {} /\ blocked # {}
  THEN {"Cannot specify both allowed_branches and blocked_branches"} ELSE {}

\* config.ts 22-29: the two refinements; a list, empty or not, is truthy.
RefineIssues(allowed, blocked) ==
  (IF allowed # {} /\ blocked # {}
   THEN {"Cannot specify both allowed_branches and blocked_branches"} ELSE {})
  \cup (IF allowed = {} /\ blocked = {}
        THEN {"Must specify either allowed_branches or blocked_branches"} ELSE {})

\* config.ts 9-29: the refinements run on an object that passed the object schema.
RepoConfigSchema(raw) ==
  LET issues == IF ObjectIssues(raw) # {} THEN ObjectIssues(raw)
                ELSE RefineIssues(Optional(raw.allowed_branches), Optional(raw.blocked_branches))
  IN [success |-> issues = {},
      issues |-> issues,
      data |-> IF issues # {} THEN {}
               ELSE {Policy(Optional(raw.allowed_branches), Optional(raw.blocked_branches), <<>>,
                            IF raw.force_push.kind = "value"
                            THEN raw.force_push.value[1] ELSE "deny")}]

\* config.ts 47-71: the config, or the exception `Invalid config: ...`.
loadConfig(raw) ==
  LET parsed == RepoConfigSchema(raw) IN
  IF ~parsed.success THEN [thrown |-> TRUE, issues |-> parsed.issues, data |-> {}]
  ELSE [thrown |-> FALSE, issues |-> {}, data |-> parsed.data]

InitConfig ==
  /\ SrvIdle /\ HookIdle /\ MirIdle
  /\ call \in [fn : {"loadConfig"}, raw : RawRepos]
  /\ ret = {}

\* index.ts 126 and 193: the config is loaded when the server starts and when the hook
\* starts.
CallLoadConfig ==
  /\ call.fn = "loadConfig"
  /\ ret = {}
  /\ ret' = {loadConfig(call.raw)}
  /\ UNCHANGED call

(***************************************************************************)
(* matchesAnyPattern over lists of patterns                                *)
(***************************************************************************)
PatN == <<"n">>
MatchPatterns == {PatProtectedDir, PatAgentStar, PatN, PatStarStar}
MatchPaths == {PathGC, PathN, AgentX, <<"g">>, <<"a", Slash, "x", Slash, "y">>}
PatternLists == UNION {[1..n -> MatchPatterns] : n \in 0..MaxPatterns}

InitMatch ==
  /\ SrvIdle /\ HookIdle /\ MirIdle
  /\ call \in [fn : {"matchesAnyPattern"}, path : MatchPaths, patterns : PatternLists]
  /\ ret = {}

\* utils.ts 151-170
CallMatchesAnyPattern ==
  /\ call.fn = "matchesAnyPattern"
  /\ ret = {}
  /\ ret' = {matchesAnyPattern(call.path, call.patterns)}
  /\ UNCHANGED call

(***************************************************************************)
(* parseRepoFromPath on the pathname of a request URL                      *)
(***************************************************************************)
\* server.ts 64: `.` of a regular expression without the `s` flag.
LineTerminators == {"\n", "\r"}
Dot(ch) == ch \notin LineTerminators

\* server.ts 64: the literal `\.git`.
DotGit == <<".", "g", "i", "t">>

\* server.ts 65-67, 73-75: null.
NoMatch == [repoName |-> <<>>, subPath |-> <<>>]

\* server.ts 64: `(\/.*)?$`.
TailMatches(t) == t = <<>> \/ (t[1] = Slash /\ \A i \in 2..Len(t) : Dot(t[i]))

\* server.ts 64: the lazy group `(.+?)` takes k = 1, 2, ... characters of s (the
\* pathname after its leading slash) until the rest of the expression matches.
RECURSIVE MatchFrom(_, _)
MatchFrom(s, k) ==
  IF k > Len(s) \/ ~Dot(s[k]) THEN NoMatch
  ELSE LET rest == DropFirst(s, k)
       IN IF StartsWith(rest, DotGit) /\ TailMatches(DropFirst(rest, Len(DotGit)))
          THEN [repoName |-> SubSeq(s, 1, k), subPath |-> DropFirst(rest, Len(DotGit))]
          ELSE MatchFrom(s, k + 1)

\* A variant of parseRepoFromPath whose first group is greedy (`.+`).
parseRepoFromPathGreedy(pathname) ==
  LET s == DropFirst(pathname, 1)
      ks == {k \in 1..Len(s) :
               /\ \A i \in 1..k : Dot(s[i])
               /\ StartsWith(DropFirst(s, k), DotGit)
               /\ TailMatches(DropFirst(s, k + Len(DotGit)))}
  IN IF pathname = <<>> \/ pathname[1] # Slash \/ ks = {} THEN NoMatch
     ELSE LET k == CHOOSE m \in ks : \A n \in ks : n <= m
          IN [repoName |-> SubSeq(s, 1, k), subPath |-> DropFirst(s, k + Len(DotGit))]

\* server.ts 57-77
parseRepoFromPath(pathname) ==
  IF pathname = <<>> \/ pathname[1] # Slash THEN NoMatch
  ELSE LET match == MatchFrom(DropFirst(pathname, 1), 1)
       IN IF match.repoName = <<>> THEN NoMatch ELSE match

\* server.ts 112-113: pathnames of request URLs, written as pieces.  A URL pathname
\* holds no line terminator.
PathPieces == {<<Slash>>, DotGit, <<"a">>, <<".">>, <<"g">>}
RECURSIVE Flatten(_)
Flatten(pieces) == IF pieces = <<>> THEN <<>> ELSE Head(pieces) \o Flatten(Tail(pieces))
Pathnames == {Flatten(ps) : ps \in UNION {[1..n -> PathPieces] : n \in 0..MaxPieces}}

InitParseRepo ==
  /\ SrvIdle /\ HookIdle /\ MirIdle
  /\ call \in [fn : {"parseRepoFromPath"}, pathname : Pathnames]
  /\ ret = {}

\* server.ts 113
CallParseRepoFromPath ==
  /\ call.fn = "parseRepoFromPath"
  /\ ret = {}
  /\ ret' = {parseRepoFromPath(call.pathname)}
  /\ UNCHANGED call

(***************************************************************************)
(* parseCgiResponse on the output of git http-backend                      *)
(***************************************************************************)
CR == 13
LF == 10

\* git-backend.ts 69-80: output[i] of a Uint8Array, undefined beyond its end.  Indices
\* count from 1 here.
Undefined == 0 - 1
ByteAt(output, i) == IF i \in 1..Len(output) THEN output[i] ELSE Undefined

\* git-backend.ts 67-87: the loop over i, giving <<separatorIndex, separatorLength>>.
RECURSIVE FindSeparator(_, _)
FindSeparator(output, i) ==
  IF i > Len(output) - 1 THEN <<Len(output) + 1, 0>>
  ELSE IF /\ ByteAt(output, i) = CR /\ ByteAt(output, i + 1) = LF
          /\ ByteAt(output, i + 2) = CR /\ ByteAt(output, i + 3) = LF
       THEN <<i, 4>>
  ELSE IF ByteAt(output, i) = LF /\ ByteAt(output, i + 1) = LF
       THEN <<i, 2>>
  ELSE FindSeparator(output, i + 1)

\* A variant of parseCgiResponse that looks for CR LF CR LF in the whole output first
\* and for LF LF only when there is none.
parseCgiResponseCrLfFirst(output) ==
  LET crlfs == {j \in 1..Len(output) :
                  /\ ByteAt(output, j) = CR /\ ByteAt(output, j + 1) = LF
                  /\ ByteAt(output, j + 2) = CR /\ ByteAt(output, j + 3) = LF}
      lfs == {j \in 1..Len(output) : ByteAt(output, j) = LF /\ ByteAt(output, j + 1) = LF}
      sep == IF crlfs # {} THEN <<CHOOSE j \in crlfs : \A m \in crlfs : j <= m, 4>>
             ELSE IF lfs # {} THEN <<CHOOSE j \in lfs : \A m \in lfs : j <= m, 2>>
             ELSE <<Len(output) + 1, 0>>
  IN [headerBytes |-> SubSeq(output, 1, sep[1] - 1),
      body |-> SubSeq(output, sep[1] + sep[2], Len(output))]

\* git-backend.ts 62-95: headerBytes and bodyBytes.
parseCgiResponse(output) ==
  LET sep == FindSeparator(output, 1)
      separatorIndex == sep[1]
      separatorLength == sep[2]
  IN [headerBytes |-> SubSeq(output, 1, separatorIndex - 1),
      body |-> SubSeq(output, separatorIndex + separatorLength, Len(output))]

\* git-backend.ts 166: the bytes written by git http-backend.
Bytes == {CR, LF, 72}
Outputs == UNION {[1..n -> Bytes] : n \in 0..MaxBytes}

InitCgi ==
  /\ SrvIdle /\ HookIdle /\ MirIdle
  /\ call \in [fn : {"parseCgiResponse"}, output : Outputs]
  /\ ret = {}

\* git-backend.ts 62-95
CallParseCgiResponse ==
  /\ call.fn = "parseCgiResponse"
  /\ ret = {}
  /\ ret' = {parseCgiResponse(call.output)}
  /\ UNCHANGED call

(***************************************************************************)
(* The protected-path check of one update                                  *)
(***************************************************************************)
\* config.ts 17: protected_paths; index.ts 50-54: origin/<base_branch> is any commit of
\* the mirror or does not exist.
ProtectedLists ==
  {<<>>, <<PatProtectedDir>>, <<PatStarStar>>, <<PatN>>, <<PatProtectedDir, PatN>>}
PathCheckUpdates ==
  [oldSha : {ZERO_SHA, CommitRoot}, newSha : Oids, refName : {RefsHeads \o AgentX}]

InitPaths ==
  /\ SrvIdle /\ HookIdle /\ MirIdle
  /\ call \in [fn : {"validateProtectedPaths"},
               update : PathCheckUpdates,
               config : {Policy({<<PatAgentStar>>}, {}, ps, f) :
                           ps \in ProtectedLists, f \in {"deny", "allow"}},
               origin : {OriginOf(base, ax) : base \in Oids, ax \in {ZERO_SHA, CommitRoot}}]
  /\ ret = {}

\* hooks.ts 335-377: the checks of one update, the protected-path check (368-376) last.
CallValidateProtectedPaths ==
  /\ call.fn = "validateProtectedPaths"
  /\ ret = {}
  /\ ret' = {[pathResult |-> validateProtectedPaths(call.update, call.config, call.origin),
              validated |-> ValidateOne(call.update, call.config, call.origin)]}
  /\ UNCHANGED call

vars == <<srvVars, hookVars, mirVars, fnVars>>

\* The server: requests, lock, sync and backend.
Init == SrvInit /\ HookIdle /\ MirIdle /\ FnIdle
Next ==
  \/ (\E c \in Calls, r \in Repos, k \in Kinds : Arrive(c, r, k)) /\ UNCHANGED <<hookVars, mirVars, fnVars>>
  \/ Resume /\ UNCHANGED <<hookVars, mirVars, fnVars>>
  \/ Release /\ UNCHANGED <<hookVars, mirVars, fnVars>>
  \/ (\E c \in Calls, ok \in BOOLEAN : SyncDone(c, ok)) /\ UNCHANGED <<hookVars, mirVars, fnVars>>
  \/ (\E c \in Calls, found \in BOOLEAN : Locate(c, found)) /\ UNCHANGED <<hookVars, mirVars, fnVars>>
  \/ (\E c \in Calls : HookStart(c)) /\ UNCHANGED <<hookVars, mirVars, fnVars>>
  \/ (\E c \in Calls, code \in {0, 1} : HookExit(c, code)) /\ UNCHANGED <<hookVars, mirVars, fnVars>>
  \/ (\E c \in Calls : ChildExit(c)) /\ UNCHANGED <<hookVars, mirVars, fnVars>>
  \/ (\E c \in Calls : BackendExit(c)) /\ UNCHANGED <<hookVars, mirVars, fnVars>>
Spec == Init /\ [][Next]_vars

\* The server under a stream of calls that never ends, all for one repo.  The event
\* loop runs every queued microtask (Resume, Release); every sync, every backend child
\* and every hook comes to an end, so every action that holds the lock terminates.
\* Nothing makes a client send a request.
LiveRepo == "r1"
NextLive ==
  \/ (\E c \in Calls, k \in Kinds : Arrive(c, LiveRepo, k)) /\ UNCHANGED <<hookVars, mirVars, fnVars>>
  \/ Resume /\ UNCHANGED <<hookVars, mirVars, fnVars>>
  \/ Release /\ UNCHANGED <<hookVars, mirVars, fnVars>>
  \/ (\E c \in Calls, ok \in BOOLEAN : SyncDone(c, ok)) /\ UNCHANGED <<hookVars, mirVars, fnVars>>
  \/ (\E c \in Calls, found \in BOOLEAN : Locate(c, found)) /\ UNCHANGED <<hookVars, mirVars, fnVars>>
  \/ (\E c \in Calls : HookStart(c)) /\ UNCHANGED <<hookVars, mirVars, fnVars>>
  \/ (\E c \in Calls, code \in {0, 1} : HookExit(c, code)) /\ UNCHANGED <<hookVars, mirVars, fnVars>>
  \/ (\E c \in Calls : ChildExit(c)) /\ UNCHANGED <<hookVars, mirVars, fnVars>>
  \/ (\E c \in Calls : BackendExit(c)) /\ UNCHANGED <<hookVars, mirVars, fnVars>>
  \/ (\E c \in Calls : Recycle(c)) /\ UNCHANGED <<hookVars, mirVars, fnVars>>
Progress ==
  /\ WF_srvVars(Resume)
  /\ WF_srvVars(Release)
  /\ WF_srvVars(\E c \in Calls, ok \in BOOLEAN : SyncDone(c, ok))
  /\ WF_srvVars(\E c \in Calls, found \in BOOLEAN : Locate(c, found))
  /\ WF_srvVars(\E c \in Calls : HookStart(c))
  /\ WF_srvVars(\E c \in Calls, code \in {0, 1} : HookExit(c, code))
  /\ WF_srvVars(\E c \in Calls : ChildExit(c))
  /\ WF_srvVars(\E c \in Calls : BackendExit(c))
SpecLive == Init /\ [][NextLive]_vars /\ Progress

\* One run of the pre-receive hook.
InitPush == HookInit /\ SrvIdle /\ MirIdle /\ FnIdle
NextPush ==
  \/ HookBegin /\ UNCHANGED <<srvVars, mirVars, fnVars>>
  \/ Validate /\ UNCHANGED <<srvVars, mirVars, fnVars>>
  \/ Gate /\ UNCHANGED <<srvVars, mirVars, fnVars>>
  \/ (\E net \in BOOLEAN : Push(net)) /\ UNCHANGED <<srvVars, mirVars, fnVars>>
  \/ Pass2Done /\ UNCHANGED <<srvVars, mirVars, fnVars>>
  \/ HookReturn /\ UNCHANGED <<srvVars, mirVars, fnVars>>
SpecPush == InitPush /\ [][NextPush]_vars

\* The mirror of one repo, request after request.
InitMirror ==
  /\ SrvIdle
  /\ hpc = "off" /\ knownRepo = TRUE /\ stdin = <<EmptyLine>>
  /\ config \in Policies
  /\ upstream \in {RefsOf(CommitRoot, ZERO_SHA, ZERO_SHA), RefsOf(CommitRoot, CommitSneaky, ZERO_SHA)}
  /\ origin = HeadsOf(upstream)
  /\ upstream0 = upstream
  /\ updates = <<>> /\ idx = 0 /\ errors = <<>> /\ validatedUpdates = <<>> /\ pidx = 0
  /\ trace = <<>> /\ result = NoResult /\ exitCode = NoExit
  /\ MirIdle
  /\ FnIdle
NextMirror ==
  \/ (\E b \in BranchNames : \E oid \in ThirdPartyOids(b) : ThirdParty(b, oid)) /\ UNCHANGED <<srvVars, fnVars>>
  \/ (\E ok \in BOOLEAN : Sync(ok)) /\ UNCHANGED <<srvVars, fnVars>>
  \/ Serve /\ UNCHANGED <<srvVars, fnVars>>
  \/ (\E input \in MirrorPushes : StartPush(input)) /\ UNCHANGED <<srvVars, fnVars>>
  \/ HookBegin /\ UNCHANGED <<srvVars, mirVars, fnVars>>
  \/ Validate /\ UNCHANGED <<srvVars, mirVars, fnVars>>
  \/ Gate /\ UNCHANGED <<srvVars, mirVars, fnVars>>
  \/ (\E net \in BOOLEAN : Push(net)) /\ UNCHANGED <<srvVars, mirVars, fnVars>>
  \/ Pass2Done /\ UNCHANGED <<srvVars, mirVars, fnVars>>
  \/ HookReturn /\ UNCHANGED <<srvVars, mirVars, fnVars>>
  \/ ReceivePack /\ UNCHANGED <<srvVars, fnVars>>
SpecMirror == InitMirror /\ [][NextMirror]_vars

\* validateBranch, applied to a ref name under a policy.
NextValidateBranch ==
  \/ CallValidateBranch /\ UNCHANGED <<srvVars, hookVars, mirVars>>
SpecValidateBranch == InitValidateBranch /\ [][NextValidateBranch]_vars

\* The environment of the upstream push, from the environment of the hook process.
NextEnv ==
  \/ CallPushEnv /\ UNCHANGED <<srvVars, hookVars, mirVars>>
SpecEnv == InitEnv /\ [][NextEnv]_vars

\* The server under requests of any path: for a configured repo, for a name the
\* configuration does not have, or with a path that is not a repo path.  Reads only.
RequestNames == {"r1", UnknownRepo, NoRepo} \cup ObjectPrototypeKeys
NextRoute ==
  \/ (\E c \in Calls, parsed \in RequestNames : Route(c, parsed, "fetch")) /\ UNCHANGED <<hookVars, mirVars, fnVars>>
  \/ Resume /\ UNCHANGED <<hookVars, mirVars, fnVars>>
  \/ Release /\ UNCHANGED <<hookVars, mirVars, fnVars>>
  \/ (\E c \in Calls, ok \in BOOLEAN : SyncDone(c, ok)) /\ UNCHANGED <<hookVars, mirVars, fnVars>>
  \/ (\E c \in Calls, found \in BOOLEAN : Locate(c, found)) /\ UNCHANGED <<hookVars, mirVars, fnVars>>
  \/ (\E c \in Calls : ChildExit(c)) /\ UNCHANGED <<hookVars, mirVars, fnVars>>
  \/ (\E c \in Calls : BackendExit(c)) /\ UNCHANGED <<hookVars, mirVars, fnVars>>
SpecRoute == Init /\ [][NextRoute]_vars

\* loadConfig, applied to the JSON text of a repo.
NextConfig ==
  \/ CallLoadConfig /\ UNCHANGED <<srvVars, hookVars, mirVars>>
SpecConfig == InitConfig /\ [][NextConfig]_vars

\* matchesAnyPattern, applied to a path and a list of patterns.
NextMatch ==
  \/ CallMatchesAnyPattern /\ UNCHANGED <<srvVars, hookVars, mirVars>>
SpecMatch == InitMatch /\ [][NextMatch]_vars

\* parseRepoFromPath, applied to the pathname of a request.
NextParseRepo ==
  \/ CallParseRepoFromPath /\ UNCHANGED <<srvVars, hookVars, mirVars>>
SpecParseRepo == InitParseRepo /\ [][NextParseRepo]_vars

\* parseCgiResponse, applied to the bytes git http-backend wrote.
NextCgi ==
  \/ CallParseCgiResponse /\ UNCHANGED <<srvVars, hookVars, mirVars>>
SpecCgi == InitCgi /\ [][NextCgi]_vars

\* validateProtectedPaths, applied to one update, a policy and the refs of the mirror.
NextPaths ==
  \/ CallValidateProtectedPaths /\ UNCHANGED <<srvVars, hookVars, mirVars>>
SpecPaths == InitPaths /\ [][NextPaths]_vars

(***************************************************************************)
(* Claims about the server and the per-repo lock                           *)
(***************************************************************************)

\* C1: for every repo, at most one action passed to withLock for that repo is between
\* its start and its completion, in every reachable state of every interleaving.
C1_MutualExclusion ==
  \A r \in Repos :
    Cardinality({c \in Calls : repoOf[c] = r /\ pc[c] \in InAction}) <= 1

\* C1 witness: on one repo a call has completed, the next one runs its action and a
\* third one waits.
C1_Witness ==
  \E c, d, e \in Calls :
    /\ repoOf[c] = repoOf[d] /\ repoOf[d] = repoOf[e]
    /\ pc[c] = "done" /\ pc[d] \in InAction /\ pc[e] = "waiting"
    /\ c \in waitedOn[d]

\* C8: the backend child of a request exists, or its output is the response, only if
\* the sync of that same request succeeded while the request held the lock.
C8_SyncBeforeBackend ==
  \A c \in Calls :
    (child[c] # "none" \/ outcome[c] = "ok") => synced[c]

\* C8 witness: a push whose backend child is running its hook, after a successful sync.
C8_Witness ==
  \E c \in Calls : child[c] = "hook" /\ synced[c] /\ kind[c] = "push"

\* C9: from the start of its sync until its backend child (and so the hook run by that
\* child) has exited, a request holds the lock of its repo, and no other request of the
\* same repo is syncing or has a live backend child.
C9_LockCoversSyncAndBackend ==
  \A c \in Calls :
    (pc[c] = "sync" \/ child[c] \in ChildAlive) =>
      /\ locks[repoOf[c]] = c
      /\ \A d \in Calls \ {c} :
           repoOf[d] = repoOf[c] => pc[d] # "sync" /\ child[d] \notin ChildAlive

\* C9 witness: a push is in its hook while another request of the same repo waits.
C9_Witness ==
  \E c, d \in Calls :
    /\ repoOf[c] = repoOf[d]
    /\ child[c] = "hook" /\ pc[d] = "waiting"

\* C10: once the action of a call has finished, by returning or by throwing, and
\* withLock has returned, the lock is no longer held by that call, the result or the
\* error has reached the caller, and no call is left waiting on a promise nobody will
\* resolve: a waiting call is queued to resume or awaits the promise of the holder.
C10_ReleaseOnEveryExit ==
  /\ \A c \in Calls :
       pc[c] = "done" =>
         /\ locks[repoOf[c]] # c
         /\ waiters[c] = <<>>
         /\ response[c] = ResponseOf(outcome[c])
  /\ \A w \in Calls :
       pc[w] = "waiting" =>
         \/ \E i \in 1..Len(mq) : mq[i] = w
         \/ \E h \in Calls :
              /\ locks[repoOf[w]] = h /\ pc[h] # "done"
              /\ \E i \in 1..Len(waiters[h]) : waiters[h][i] = w

\* C10 witness: an action threw, its caller got the error, and a call that waited on
\* it runs its action.
C10_Witness ==
  \E c, w \in Calls :
    /\ outcome[c] = "throw" /\ pc[c] = "done"
    /\ response[c] = "500 Internal Server Error"
    /\ c \in waitedOn[w] /\ pc[w] \in InAction

\* The action of a call has started (it may have finished since).
Started(c) == pc[c] \in InAction \cup {"settled", "done"}

C13_ReposIndependent ==
  \A c \in Calls :
    /\ \A d \in waitedOn[c] : repoOf[d] = repoOf[c]
    /\ pc[c] = "waiting" =>
         \/ locks[repoOf[c]] # NoCall
         \/ \E i \in 1..Len(mq) : mq[i] = c

\* C13 witness: a call for one repo arrived while the lock of another repo was held
\* and runs its action, without having waited, while that holder is still in its action.
C13_Witness ==
  \E c, d \in Calls :
    /\ c < d /\ repoOf[c] # repoOf[d]
    /\ pc[c] \in InAction /\ pc[d] \in InAction
    /\ waitedOn[d] = {}

C21_SyncFailureIs500 ==
  \A c \in Calls :
    (pc[c] \in {"locate", "backend", "settled", "done"} /\ ~synced[c]) =>
      /\ outcome[c] = "sync500"
      /\ child[c] = "none"
      /\ pc[c] = "done" =>
           /\ response[c] = "500 Internal Error - Failed to sync with upstream"
           /\ locks[repoOf[c]] # c

\* C21 witness: the sync of a request failed, its client got the 500, and a request
\* that had waited for it runs its action.
C21_Witness ==
  \E c, w \in Calls :
    /\ pc[c] = "done" /\ ~synced[c] /\ outcome[c] = "sync500"
    /\ response[c] = "500 Internal Error - Failed to sync with upstream"
    /\ c \in waitedOn[w] /\ pc[w] \in InAction

(***************************************************************************)
(* Claims about the pre-receive hook and validateAndPush                   *)
(***************************************************************************)
ResultAllowed == result # NoResult /\ \A r \in result : r.allowed
ResultRejected == result # NoResult /\ \A r \in result : ~r.allowed
Validations == {k \in 1..Len(trace) : trace[k].op = "validate"}
Pushes == {k \in 1..Len(trace) : trace[k].op = "push"}

\* C2: as soon as one update of the batch has failed a pass-1 check, no upstream push
\* is ever issued (upstream keeps the refs it had), and validateAndPush returns
\* allowed = false.
C2_GateRejectsWholeBatch ==
  (\E k \in Validations : ~trace[k].success) =>
    /\ Pushes = {}
    /\ upstream = upstream0
    /\ hpc \in {"returned", "exited"} => ResultRejected

\* C2 witness: a batch in which one update passed pass 1 and another failed has been
\* rejected.
C2_Witness ==
  /\ hpc = "exited" /\ ResultRejected
  /\ \E j, k \in Validations : trace[j].success /\ ~trace[k].success

\* C3 (as claimed): whenever validateAndPush has returned allowed = false, the refs of
\* upstream are exactly those it had before the attempt.
C3_RejectedLeavesUpstreamUntouched ==
  ResultRejected => upstream = upstream0

AdmittedRefs == {RefsHeads \o b : b \in {n \in BranchNames : validateBranch(RefsHeads \o n, config).allowed}}
C5_OnlyAdmittedBranchesTouched ==
  /\ \A k \in Pushes : trace[k].target \subseteq AdmittedRefs
  /\ \A r \in DOMAIN upstream : upstream[r] # upstream0[r] => r \in AdmittedRefs

\* C6: no push is issued before every update of the batch has been validated, and
\* validations as well as pushes follow the order of the update list.
C6_ValidateAllThenPushInOrder ==
  /\ \A k \in Pushes : \A i \in 1..Len(updates) :
       \E j \in Validations : j < k /\ trace[j].i = i
  /\ \A j, k \in 1..Len(trace) :
       (j < k /\ trace[j].op = trace[k].op) => trace[j].i < trace[k].i

\* C6 witness: two updates were validated, then both were pushed.
C6_Witness ==
  /\ Len(trace) = 4
  /\ trace[1].op = "validate" /\ trace[2].op = "validate"
  /\ trace[3].op = "push" /\ trace[4].op = "push" /\ trace[4].success

\* C7: the hook exits 0 on non-empty input exactly when validateAndPush returned
\* allowed = true; a rejection (policy or upstream) and an unknown repo exit 1; so
\* exit 0 on non-empty input means every update of the batch was pushed successfully.
C7_ExitCodeFollowsResult ==
  hpc = "exited" =>
    /\ exitCode \in {0, 1}
    /\ ~IsEmptyInput(stdin) => (exitCode = 0 <=> ResultAllowed)
    /\ ResultRejected => exitCode = 1
    /\ ~knownRepo => exitCode = 1
    /\ (exitCode = 0 /\ ~IsEmptyInput(stdin)) =>
         /\ Len(updates) > 0
         /\ \A i \in 1..Len(updates) :
              \E k \in Pushes : trace[k].i = i /\ trace[k].success

\* C7 witness: the hook has exited 1 after an upstream push failed.
C7_Witness ==
  /\ hpc = "exited" /\ exitCode = 1
  /\ \E k \in Pushes : ~trace[k].success

\* An update that rewrites history: both oids non-zero, old not reachable from new.
ForceUpdate(u) ==
  u.oldSha # ZERO_SHA /\ u.newSha # ZERO_SHA /\ u.oldSha \notin Reachable(u.newSha)
ForceMsg(u) == <<"Force push detected and not allowed", u.oldSha \div 10, u.newSha \div 10>>

\* C14: with force_push = deny, the force-push check rejects every update with two
\* non-zero oids whose old is not an ancestor of its new, with the `Force push detected
\* and not allowed` message carrying the 8-character forms of both oids; that message
\* is the error of the update whenever the update gets past the branch check; such an
\* update is never pushed and the upstream ref it names keeps its oid.
C14_ForcePushDenied ==
  config.force_push = "deny" =>
    /\ \A u \in Updates :
         ForceUpdate(u) => validateForcePush(u, config) = Rejected(ForceMsg(u))
    /\ \A i \in 1..Len(updates) :
         ForceUpdate(updates[i]) =>
           /\ \A k \in Pushes : trace[k].i # i
           /\ upstream[updates[i].refName] = upstream0[updates[i].refName]
           /\ \A k \in Validations :
                trace[k].i = i =>
                  /\ ~trace[k].success
                  /\ validateBranch(updates[i].refName, config).allowed =>
                       trace[k].error = ForceMsg(updates[i])

\* C14 witness: a force update of an existing, admitted branch has been rejected with
\* the message, and the hook has exited 1.
C14_Witness ==
  /\ hpc = "exited" /\ exitCode = 1 /\ config.force_push = "deny"
  /\ \E k \in Validations :
       /\ ForceUpdate(trace[k].update)
       /\ trace[k].error = ForceMsg(trace[k].update)
       /\ upstream[trace[k].update.refName] = trace[k].update.oldSha

\* C15 (as claimed): with force_push = deny, every update whose new oid is the
\* all-zero oid, whatever its old oid, fails pass 1 (with `Branch deletion is not
\* allowed (force_push: deny)` when it gets past the branch check), and no upstream
\* push of the delete form (`git push origin --delete`) is ever issued.
C15_DeletionDenied ==
  config.force_push = "deny" =>
    /\ \A k \in Validations :
         trace[k].update.newSha = ZERO_SHA =>
           /\ ~trace[k].success
           /\ validateBranch(trace[k].update.refName, config).allowed =>
                trace[k].error = <<"Branch deletion is not allowed (force_push: deny)">>
    /\ \A k \in Pushes : trace[k].args.form # "delete"

\* The paths of the net diff between the base branch and new that a protected pattern
\* matches.
ProtectedChanges(base, new) ==
  SelectSeq(ChangedPaths(base, new), LAMBDA p : matchesAnyPattern(p, config.protected_paths))

\* The update is subject to the protected-path rule and breaks it.
TouchesProtected(u, base) ==
  /\ Len(config.protected_paths) > 0
  /\ u.newSha # ZERO_SHA
  /\ base # ZERO_SHA
  /\ RevListNot(u.newSha, base) # {}
  /\ Len(ProtectedChanges(base, u.newSha)) > 0

\* C16 (as claimed): with protected paths configured, a non-delete update that brings
\* at least one commit not reachable from origin/<base_branch> and whose net diff
\* against origin/<base_branch> holds a path matching a protected pattern fails pass 1;
\* when the path check is the first check it fails, its error lists exactly the
\* matching paths; and the update is never pushed, forced or not.
C16_ProtectedPathsRejected ==
  \A k \in Validations :
    TouchesProtected(trace[k].update, trace[k].base) =>
      /\ ~trace[k].success
      /\ trace[k].error[1] = "Changes to protected paths detected" =>
           trace[k].error[2] = ProtectedChanges(trace[k].base, trace[k].update.newSha)
      /\ \A j \in Pushes : trace[j].i # trace[k].i

\* The tip new has the content of base at every path a protected pattern matches.
TipKeepsProtected(base, new) ==
  \A i \in 1..Len(Paths) :
    matchesAnyPattern(Paths[i], config.protected_paths) => Tree(base)[Paths[i]] = Tree(new)[Paths[i]]

\* Some commit the push brings changes a path a protected pattern matches.
IntermediateTouchesProtected(base, new) ==
  \E c \in Reachable(new) \ Reachable(base) : \E q \in Parents(c) : \E i \in 1..Len(Paths) :
    matchesAnyPattern(Paths[i], config.protected_paths) /\ Tree(q)[Paths[i]] # Tree(c)[Paths[i]]

\* C17: the protected-path check looks at the net diff only: an update whose tip does
\* not differ from origin/<base_branch> on any protected path is never rejected for
\* protected paths, whatever its intermediate commits changed, and when the batch is
\* accepted it has been pushed upstream.
C17_NetDiffOnly ==
  \A k \in Validations :
    ( /\ trace[k].update.newSha # ZERO_SHA
      /\ trace[k].base # ZERO_SHA
      /\ TipKeepsProtected(trace[k].base, trace[k].update.newSha) ) =>
      /\ ~trace[k].success => trace[k].error[1] # "Changes to protected paths detected"
      /\ ResultAllowed =>
           \E j \in Pushes :
             /\ trace[j].i = trace[k].i /\ trace[j].success
             /\ trace[j].args.src = trace[k].update.newSha

\* C17 witness: with a protected directory, a push whose first commit changes a file of
\* that directory and whose tip restores it has been accepted and is on upstream.
C17_Witness ==
  /\ ResultAllowed /\ Len(config.protected_paths) > 0
  /\ \E k \in Validations :
       /\ trace[k].base # ZERO_SHA /\ trace[k].update.newSha # ZERO_SHA
       /\ IntermediateTouchesProtected(trace[k].base, trace[k].update.newSha)
       /\ TipKeepsProtected(trace[k].base, trace[k].update.newSha)
       /\ upstream[trace[k].update.refName] = trace[k].update.newSha

\* The update of validation k got past the branch check and the force-push check, so
\* the divergence step (hooks.ts 354-364) is the next one for it.
ReachesDivergenceStep(k) ==
  /\ validateBranch(trace[k].update.refName, config).allowed
  /\ validateForcePush(trace[k].update, config).allowed

\* What refs/remotes/origin/<branch> resolved to at validation k (ZERO_SHA: it did not).
RemoteAt(k) == trace[k].mirror[StripRefsHeads(trace[k].update.refName)]

\* The update of validation k is neither a create nor a force update, and the mirror's
\* remote-tracking ref of its branch resolved to an oid other than its old oid.
Diverged(k) ==
  /\ trace[k].update.oldSha # ZERO_SHA
  /\ ~ForceUpdate(trace[k].update)
  /\ RemoteAt(k) # ZERO_SHA
  /\ RemoteAt(k) # trace[k].update.oldSha

DivergedMsg(k) ==
  <<"Upstream has diverged", trace[k].update.oldSha \div 10, RemoteAt(k) \div 10>>

\* C18: an update is rejected with the `Upstream has diverged` message (with the short
\* forms of the expected and the actual oid) exactly when it is neither a create nor
\* classified a force update and refs/remotes/origin/<branch> resolves to an oid other
\* than its old oid, for every update the divergence step is reached for (one that
\* passed the branch check and the force-push check); a create, an accepted force
\* update and an update whose remote-tracking ref does not resolve never get it.
C18_DivergenceIff ==
  \A k \in Validations :
    /\ (~trace[k].success /\ trace[k].error[1] = "Upstream has diverged") =>
         /\ ReachesDivergenceStep(k)
         /\ Diverged(k)
         /\ trace[k].error = DivergedMsg(k)
    /\ (ReachesDivergenceStep(k) /\ Diverged(k)) =>
         /\ ~trace[k].success
         /\ trace[k].error = DivergedMsg(k)

\* C18 witness: in one batch a fast-forward whose old oid is not what the mirror has
\* for the branch was rejected with the message, and a force update whose old oid is
\* not what the mirror has either passed pass 1.
C18_Witness ==
  \E j, k \in Validations :
    /\ ~trace[k].success /\ ReachesDivergenceStep(k) /\ trace[k].error = DivergedMsg(k)
    /\ trace[j].success /\ ForceUpdate(trace[j].update)
    /\ RemoteAt(j) \notin {ZERO_SHA, trace[j].update.oldSha}

\* The message of the first of the four checks, in the order of the loop body, that
\* rejects update u against the mirror refs m.
FirstFailure(u, m) ==
  IF ~validateBranch(u.refName, config).allowed
  THEN validateBranch(u.refName, config).message
  ELSE IF ~validateForcePush(u, config).allowed
  THEN validateForcePush(u, config).message
  ELSE IF validateForcePush(u, config).isForcePush # {TRUE}
          /\ ~checkUpstreamDivergence(u, m).allowed
  THEN checkUpstreamDivergence(u, m).message
  ELSE validateProtectedPaths(u, config, m).message

\* The validations that failed, in the order in which they were made.
RECURSIVE FailedUpTo(_)
FailedUpTo(n) ==
  IF n = 0 THEN <<>>
  ELSE IF trace[n].op = "validate" /\ ~trace[n].success
       THEN Append(FailedUpTo(n - 1), n)
       ELSE FailedUpTo(n - 1)

\* C19: pass 1 does not stop at a failing update: once it is over, every update of the
\* batch has been validated, in input order; a validation fails with one error, that
\* of the first check the update fails; and the message of a pass-1 rejection is the
\* PUSH REJECTED envelope around exactly these errors, one per failing update, in input
\* order.
C19_AllErrorsCollected ==
  /\ hpc \in {"pass2", "returned", "exited"} /\ Len(updates) > 0 =>
       /\ Len(trace) >= Len(updates)
       /\ \A i \in 1..Len(updates) :
            trace[i].op = "validate" /\ trace[i].i = i /\ trace[i].update = updates[i]
  /\ \A k \in Validations :
       ~trace[k].success => trace[k].error = FirstFailure(trace[k].update, trace[k].mirror)
  /\ (ResultRejected /\ Pushes = {}) =>
       LET failed == FailedUpTo(Len(trace)) IN
       /\ Len(failed) = Cardinality({i \in 1..Len(updates) : ~trace[i].success})
       /\ \A r \in result :
            r.message = <<<<"">>, <<"=====">>, <<"PUSH REJECTED">>, <<"=====">>>>
                        \o [n \in 1..Len(failed) |-> trace[failed[n]].error]
                        \o <<<<"=====">>, <<"">>>>

\* C19 witness: a batch of two updates that fail different checks has been rejected
\* with both errors.
C19_Witness ==
  /\ hpc = "exited" /\ ResultRejected /\ Len(trace) = 2
  /\ ~trace[1].success /\ ~trace[2].success
  /\ trace[1].error[1] # trace[2].error[1]
  /\ \A r \in result : Len(r.message) = 8

\* C20: in pass 2, the first upstream push that exits non-zero ends validateAndPush:
\* the push is the last step of the trace, no update behind it is pushed, and the result
\* is allowed = false with the PUSH REJECTED envelope around `Failed to push to
\* upstream:` followed by what `git push` wrote to stderr.
C20_StopAtFirstPushFailure ==
  \A k \in Pushes :
    ~trace[k].success =>
      /\ k = Len(trace)
      /\ \A j \in Pushes : j < k => trace[j].success
      /\ hpc \in {"returned", "exited"}
      /\ ResultRejected
      /\ \A r \in result :
           r.message = <<<<"">>, <<"=====">>, <<"PUSH REJECTED">>, <<"=====">>,
                         trace[k].error, <<"=====">>, <<"">>>>
      /\ trace[k].error[1] = "Failed to push to upstream:"

\* C20 witness: two updates were validated, the push of the first failed, the second
\* was never pushed, and the hook has exited 1.
C20_Witness ==
  /\ hpc = "exited" /\ exitCode = 1
  /\ Len(validatedUpdates) = 2
  /\ Cardinality(Pushes) = 1
  /\ \E k \in Pushes : ~trace[k].success /\ trace[k].i = 1

(***************************************************************************)
(* Claims about the mirror                                                 *)
(***************************************************************************)
\* C22 as stated: whenever no operation runs on the repo, the mirror's refs/heads/*
\* equal upstream's refs/heads/* as the last completed sync read them.
C22_MirrorEqualsLastSync ==
  mpc = "idle" => heads = lastSync

\* C22, amended: whenever no operation runs on the repo, every branch of the mirror
\* has the oid upstream's branch had at the last completed sync, or the oid that a push
\* accepted since that sync wrote to it; syncs that fail and pushes that are rejected
\* leave the mirror's branches as they were.
C22_MirrorFollowsSyncAndPushes ==
  mpc = "idle" =>
    \A b \in BranchNames :
      IF accepted[b] = {} THEN heads[b] = lastSync[b] ELSE heads[b] \in accepted[b]

\* Between two requests, after a sync and an accepted push: the branch the push wrote
\* has the pushed oid, which upstream did not have at that sync, and the other branch
\* is as the sync left it.
C22_Witness ==
  /\ mpc = "idle"
  /\ exitCode = 0
  /\ accepted[AgentX] = {CommitFeature}
  /\ heads[AgentX] = CommitFeature
  /\ lastSync[AgentX] # CommitFeature
  /\ accepted[Main] = {}
  /\ heads[Main] = lastSync[Main]

(***************************************************************************)
(* Claims about validateBranch                                             *)
(***************************************************************************)
\* The branch named by a ref name refs/heads/<b>.
BranchOf(refName) == DropFirst(refName, Len(RefsHeads))
ListOf(optional) == CHOOSE l \in optional : TRUE

OnlyBranchMsg(refName) == <<"Only branch pushes allowed (refs/heads/*), got: ", refName>>

\* C24: under every policy, an update whose ref name does not begin with refs/heads/
\* fails pass 1 with `Only branch pushes allowed (refs/heads/*), got: <ref_name>`; the
\* batch it belongs to is rejected (validateAndPush returns allowed = false, the hook
\* exits 1), no upstream push is issued and upstream keeps every ref it had.
C24_NonBranchRejected ==
  /\ \A r \in ValidateBranchRefs, p \in Policies \cup BranchPolicies :
       ~StartsWith(r, RefsHeads) => validateBranch(r, p) = Rejected(OnlyBranchMsg(r))
  /\ \A k \in Validations :
       ~StartsWith(trace[k].update.refName, RefsHeads) =>
         /\ ~trace[k].success
         /\ trace[k].error = OnlyBranchMsg(trace[k].update.refName)
         /\ Pushes = {}
         /\ upstream = upstream0
         /\ result # NoResult => ResultRejected
         /\ hpc = "exited" => exitCode = 1

\* C24 witness: a batch of a tag and of an update that passed every check has been
\* rejected; the tag got the message and nothing was pushed.
C24_Witness ==
  /\ hpc = "exited" /\ exitCode = 1
  /\ Pushes = {}
  /\ \E k, j \in Validations :
       /\ trace[k].update.refName = RefsTags \o AgentX
       /\ trace[k].error = OnlyBranchMsg(RefsTags \o AgentX)
       /\ trace[j].success
       /\ upstream[trace[j].update.refName] = upstream0[trace[j].update.refName]

(***************************************************************************)
(* Claims about the environment of the upstream push                       *)
(***************************************************************************)
\* C25: the environment of the upstream `git push` is built from the ambient
\* environment and from nothing else: it has no GIT_QUARANTINE_PATH, it has every other
\* ambient variable (with the ambient value unless the SSH overlay names it), and it has
\* every key of the SSH overlay with the overlay's value.
C25_PushEnvironment ==
  \A e \in ret :
    call.fn = "pushToUpstream" =>
      LET overlay == setupSshEnv(call.ambient, call.ssh_key_path) IN
        /\ "GIT_QUARANTINE_PATH" \notin DOMAIN e
        /\ \A k \in DOMAIN call.ambient \ {"GIT_QUARANTINE_PATH"} :
             k \in DOMAIN e /\ (k \notin DOMAIN overlay => e[k] = call.ambient[k])
        /\ \A k \in DOMAIN overlay : k \in DOMAIN e /\ e[k] = overlay[k]
        /\ DOMAIN e \subseteq DOMAIN call.ambient \cup DOMAIN overlay

\* C25 witness: the hook runs with GIT_QUARANTINE_PATH, PATH and a GIT_SSH_COMMAND of its
\* own, an SSH key is configured; the push gets PATH, the overlay's GIT_SSH_COMMAND and
\* no GIT_QUARANTINE_PATH.
C25_Witness ==
  \E e \in ret :
    /\ call.fn = "pushToUpstream"
    /\ {"GIT_QUARANTINE_PATH", "PATH", "GIT_SSH_COMMAND"} \subseteq DOMAIN call.ambient
    /\ call.ssh_key_path = {<<"k">>}
    /\ "GIT_SSH_KEY_PATH" \notin DOMAIN call.ambient
    /\ "GIT_QUARANTINE_PATH" \notin DOMAIN e
    /\ e["PATH"] = call.ambient["PATH"]
    /\ e["GIT_SSH_COMMAND"] # call.ambient["GIT_SSH_COMMAND"]
    /\ e["GIT_SSH_COMMAND"][2] = "k"

(***************************************************************************)
(* Claims about the failures of a request                                  *)
(***************************************************************************)
\* C27: a request whose handling raised an exception that handleGitRequest does not
\* catch itself (the git backend cannot be located or spawned, inside the critical
\* section) is answered 500 `Internal Server Error`, and by then its call no longer
\* holds the lock of its repo.
C27_ExceptionIs500 ==
  \A c \in Calls :
    outcome[c] = "throw" =>
      /\ synced[c]
      /\ pc[c] \in {"settled", "done"}
      /\ pc[c] = "done" =>
           /\ response[c] = "500 Internal Server Error"
           /\ locks[repoOf[c]] # c

\* C27 witness: the backend of a call could not be located, the call was answered 500
\* `Internal Server Error`, and a call that had waited for its lock is now in its action.
C27_Witness ==
  \E c, w \in Calls :
    /\ pc[c] = "done" /\ outcome[c] = "throw" /\ child[c] = "none"
    /\ response[c] = "500 Internal Server Error"
    /\ c \in waitedOn[w] /\ pc[w] \in InAction
    /\ locks[repoOf[c]] = w

(***************************************************************************)
(* Claims about the routing of requests                                    *)
(***************************************************************************)
\* C26 as stated: a request whose path is not a repo path, or whose repo name is not in
\* the configuration, is answered 404 (`Not Found - Invalid repo path`, `Not Found -
\* Unknown repo: <name>`) and never holds a lock, never syncs, never has a backend.
C26_UnknownRepoIs404 ==
  \A c \in Calls :
    (pc[c] # "idle" /\ repoOf[c] \notin Repos) =>
      /\ pc[c] = "refused"
      /\ response[c] = IF repoOf[c] = NoRepo THEN "404 Not Found - Invalid repo path"
                       ELSE "404 Not Found - Unknown repo: " \o repoOf[c]
      /\ \A r \in LockNames : locks[r] # c
      /\ child[c] = "none"

(***************************************************************************)
(* Claims about the input of the pre-receive hook                          *)
(***************************************************************************)
\* The input has nothing but blanks and newlines.
WhitespaceOnly(lines) == \A i \in 1..Len(lines) : IsBlank(lines[i])

\* C28: for a configured repo, when the input of the hook is empty or white space only,
\* the hook exits 0; validateAndPush is never entered (no update is validated, no
\* result is returned) and no upstream push is issued: upstream keeps its refs.
C28_EmptyInputIsNoOp ==
  (knownRepo /\ hpc # "off" /\ WhitespaceOnly(stdin)) =>
    /\ hpc \in {"start", "exited"}
    /\ hpc = "exited" => exitCode = 0
    /\ trace = <<>>
    /\ updates = <<>>
    /\ result = NoResult
    /\ upstream = upstream0

\* C28 witness: the hook of a configured repo got a blank and a newline and exited 0.
C28_Witness ==
  /\ knownRepo /\ hpc = "exited" /\ exitCode = 0
  /\ stdin = <<<<<<>>, <<>>>>, EmptyLine>>
  /\ trace = <<>> /\ result = NoResult

\* The line has fewer than three fields, or one of its first three fields is empty.
LacksField(line) == Len(line) < 3 \/ \E k \in 1..3 : line[k] = <<>>

\* C29 as stated: for a configured repo, if any non-empty line of the input lacks one of
\* the three fields, the hook exits non-zero before any update is validated or pushed.
C29_MalformedLineAborts ==
  (knownRepo /\ hpc # "off" /\ \E i \in 1..Len(stdin) : stdin[i] # EmptyLine /\ LacksField(stdin[i])) =>
    /\ hpc \in {"start", "exited"}
    /\ hpc = "exited" => exitCode # 0
    /\ trace = <<>>

\* C29, amended: for a configured repo, if any non-empty line of the input, taken
\* without the white space at its two ends, lacks one of the three fields, the hook
\* exits 1 before any update is validated or pushed: validateAndPush is never entered
\* and upstream keeps its refs.
C29_MalformedLineOfTrimmedInputAborts ==
  (knownRepo /\ hpc # "off"
     /\ \E i \in 1..Len(Trim(stdin)) : Trim(stdin)[i] # EmptyLine /\ LacksField(Trim(stdin)[i])) =>
    /\ hpc \in {"start", "exited"}
    /\ hpc = "exited" => exitCode = 1
    /\ trace = <<>>
    /\ updates = <<>>
    /\ result = NoResult
    /\ upstream = upstream0

\* C29 witness: a well-formed line followed by a line of one field; the hook has exited 1
\* and nothing was validated.
C29_Witness ==
  /\ knownRepo /\ hpc = "exited" /\ exitCode = 1
  /\ stdin = <<GoodLine, <<<<ZERO_SHA>>>>, EmptyLine>>
  /\ trace = <<>> /\ result = NoResult

(***************************************************************************)
(* Claims about the configuration                                          *)
(***************************************************************************)
\* Exactly one of the two branch lists is present.
ExactlyOne(allowed, blocked) == (allowed = {}) # (blocked = {})

\* C30: loadConfig returns a config only for a repo with exactly one of
\* allowed_branches and blocked_branches (the other one absent); with both or with
\* neither it throws, with the message of the refinement when the rest of the repo is
\* valid; so every policy it returns, the policy the hook validates under, has exactly
\* one of the two lists.
C30_ExactlyOneBranchList ==
  \A r \in ret :
    call.fn = "loadConfig" =>
      LET a == call.raw.allowed_branches.kind
          b == call.raw.blocked_branches.kind
      IN /\ ~r.thrown => {a, b} = {"value", "absent"}
         /\ ~r.thrown => \A p \in r.data : ExactlyOne(p.allowed_branches, p.blocked_branches)
         /\ (a = "value" /\ b = "value") =>
              /\ r.thrown
              /\ ObjectIssues(call.raw) = {} =>
                   r.issues = {"Cannot specify both allowed_branches and blocked_branches"}
         /\ (a = "absent" /\ b = "absent") =>
              /\ r.thrown
              /\ ObjectIssues(call.raw) = {} =>
                   r.issues = {"Must specify either allowed_branches or blocked_branches"}

\* C30 witness: a repo that is valid but for its branch lists, with an empty
\* allowed_branches and a blocked_branches, was refused.
C30_Witness ==
  \E r \in ret :
    /\ call.fn = "loadConfig"
    /\ call.raw.allowed_branches = Value(<<>>)
    /\ call.raw.blocked_branches = Value(<<Main>>)
    /\ ObjectIssues(call.raw) = {}
    /\ r.thrown

(***************************************************************************)
(* Claims about the glob patterns                                          *)
(***************************************************************************)
\* The set of the patterns of a list.
PatternSet(patterns) == {patterns[i] : i \in 1..Len(patterns)}

\* C31: matchesAnyPattern(path, patterns) is true exactly when one pattern of the list,
\* taken alone, matches the path; every list with the same set of patterns (a
\* permutation, a list with duplicates) gives the same result.
C31_MatchDependsOnPatternSet ==
  \A r \in ret :
    call.fn = "matchesAnyPattern" =>
      /\ r = (\E p \in PatternSet(call.patterns) : MatchesPattern(call.path, p))
      /\ r = (\E p \in PatternSet(call.patterns) : matchesAnyPattern(call.path, <<p>>))
      /\ \A q \in PatternLists :
           PatternSet(q) = PatternSet(call.patterns) => matchesAnyPattern(call.path, q) = r

\* C31 witness: a list whose last pattern only matches the path, with a duplicate before.
C31_Witness ==
  /\ ret = {TRUE}
  /\ call.fn = "matchesAnyPattern"
  /\ call.path = PathGC
  /\ call.patterns = <<PatAgentStar, PatAgentStar, PatProtectedDir>>

(***************************************************************************)
(* Claims about the path of a request                                      *)
(***************************************************************************)
\* The lengths k of a repoName with p = "/" + repoName + ".git" + subPath, repoName of
\* k >= 1 characters and subPath empty or beginning with "/".
RepoNameLengths(p) ==
  {k \in 1..Len(p) :
     /\ Len(p) >= k + 5
     /\ p[1] = Slash
     /\ SubSeq(p, k + 2, k + 5) = <<".", "g", "i", "t">>
     /\ (Len(p) = k + 5 \/ p[k + 6] = Slash)}

\* C32: parseRepoFromPath(p) returns {repoName, subPath} exactly when
\* p = "/" + repoName + ".git" + subPath with a non-empty repoName and a subPath that is
\* empty or begins with "/"; it takes the shortest such repoName; otherwise it returns
\* null.
C32_ParseRepoFromPath ==
  \A r \in ret :
    call.fn = "parseRepoFromPath" =>
      LET p == call.pathname
          ks == RepoNameLengths(p)
      IN IF ks = {} THEN r = NoMatch
         ELSE LET k == CHOOSE m \in ks : \A n \in ks : m <= n
              IN /\ r = [repoName |-> SubSeq(p, 2, k + 1), subPath |-> SubSeq(p, k + 6, Len(p))]
                 /\ <<Slash>> \o r.repoName \o <<".", "g", "i", "t">> \o r.subPath = p

\* C32 witness: /a.git/.git has two such repoNames, a and a.git/; the shorter is returned.
C32_Witness ==
  /\ call.fn = "parseRepoFromPath"
  /\ call.pathname = <<Slash, "a", ".", "g", "i", "t", Slash, ".", "g", "i", "t">>
  /\ ret = {[repoName |-> <<"a">>, subPath |-> <<Slash, ".", "g", "i", "t">>]}

(***************************************************************************)
(* Claims about the response of git http-backend                           *)
(***************************************************************************)
\* The separator beginning at position i of the output, if any.
SeparatorAt(output, i) ==
  IF i + 3 <= Len(output) /\ SubSeq(output, i, i + 3) = <<13, 10, 13, 10>> THEN 4
  ELSE IF i + 1 <= Len(output) /\ SubSeq(output, i, i + 1) = <<10, 10>> THEN 2
  ELSE 0

\* C33: parseCgiResponse splits the output at the first occurrence of CR LF CR LF or
\* LF LF: the headers are the bytes before it and the body is exactly the bytes after it;
\* without any separator the body is empty and the whole output is the headers.
C33_SplitAtFirstSeparator ==
  \A r \in ret :
    call.fn = "parseCgiResponse" =>
      LET out == call.output
          at == {i \in 1..Len(out) : SeparatorAt(out, i) > 0}
      IN IF at = {} THEN r.body = <<>> /\ r.headerBytes = out
         ELSE LET i == CHOOSE m \in at : \A n \in at : m <= n
              IN /\ r.headerBytes = SubSeq(out, 1, i - 1)
                 /\ r.body = SubSeq(out, i + SeparatorAt(out, i), Len(out))
                 /\ Len(r.headerBytes) + SeparatorAt(out, i) + Len(r.body) = Len(out)

\* C33 witness: LF LF comes first and CR LF CR LF after it stays in the body.
C33_Witness ==
  /\ call.fn = "parseCgiResponse"
  /\ call.output = <<72, 10, 10, 13, 10, 13, 10>>
  /\ ret = {[headerBytes |-> <<72>>, body |-> <<13, 10, 13, 10>>]}

(***************************************************************************)
(* Claims about the entries of the lock map                                *)
(***************************************************************************)
\* A call of withLock holds the slot of its repo from locks.set (utils.ts 69) to
\* locks.delete (utils.ts 79): while its action runs and until the finally block.
Holding == InAction \cup {"settled"}
HoldersOf(r) == {c \in Calls : repoOf[c] = r /\ pc[c] \in Holding}

\* C34: the lock map has an entry for a repo exactly when one call of withLock for that
\* repo is between its acquire and its release, and the entry is that call's; with no
\* call running or waiting the map is empty.
C34_EntryIffOneHolder ==
  /\ \A r \in LockNames :
       /\ locks[r] # NoCall <=> Cardinality(HoldersOf(r)) = 1
       /\ locks[r] # NoCall => HoldersOf(r) = {locks[r]}
       /\ Cardinality(HoldersOf(r)) <= 1
  /\ (\A c \in Calls : pc[c] \notin Holding \cup {"waiting"}) =>
       \A r \in LockNames : locks[r] = NoCall

\* C34 witness: a call for one repo has released after a failed action and left no
\* entry, while a call for the other repo has acquired and a third one waits for it.
C34_Witness ==
  \E c, d, e \in Calls :
    /\ pc[c] = "done" /\ outcome[c] = "throw" /\ locks[repoOf[c]] = NoCall
    /\ pc[d] \in InAction /\ locks[repoOf[d]] = d /\ repoOf[d] # repoOf[c]
    /\ pc[e] = "waiting" /\ repoOf[e] = repoOf[d]

(***************************************************************************)
(* Claims about the form of the upstream command                           *)
(***************************************************************************)
\* The class pass 1 gives an update (validateForcePush, hooks.ts 66-100).
ClassOf(u) ==
  IF u.oldSha = ZERO_SHA THEN "create"
  ELSE IF u.newSha = ZERO_SHA THEN "delete"
  ELSE IF u.oldSha \notin Reachable(u.newSha) THEN "force-update"
  ELSE "fast-forward"

\* C35: in pass 2 the form of the upstream command agrees with the class pass 1 gave the
\* update: the delete form exactly for a delete (old non-zero, new zero), the force form
\* exactly for a force-update (only under force_push = allow), and the plain form for a
\* create and a fast-forward.
C35_FormAgreesWithClass ==
  \A k \in Pushes :
    LET u == trace[k].update
        form == trace[k].args.form
    IN /\ form = "delete" <=> ClassOf(u) = "delete"
       /\ form = "force" <=> ClassOf(u) = "force-update"
       /\ form = "force" => config.force_push = "allow"
       /\ ClassOf(u) \in {"create", "fast-forward"} => form = "plain"

(***************************************************************************)
(* Claims about the protected-path check                                   *)
(***************************************************************************)
\* origin/<base_branch> of the call, ZERO_SHA when it does not resolve.
BaseOf == call.origin[call.config.base_branch]

\* The paths that differ between two commits and that a pattern of the list matches.
ProtectedDiff(base, new, patterns) ==
  {p \in {PathGTab, PathGC, PathN} :
     /\ Tree(base)[p] # Tree(new)[p]
     /\ \E i \in 1..Len(patterns) : MatchesPattern(p, patterns[i])}

\* C36: when no commit is reachable from new_oid but not from origin/<base_branch>, the
\* protected-path check accepts with `No new commits to check`, whatever the patterns
\* and whatever a diff between the two commits would show.
C36_NoNewCommitsAccepted ==
  \A r \in ret :
    ( /\ call.fn = "validateProtectedPaths"
      /\ call.config.protected_paths # <<>>
      /\ call.update.newSha # ZERO_SHA
      /\ BaseOf # ZERO_SHA
      /\ Reachable(call.update.newSha) \subseteq Reachable(BaseOf) ) =>
        /\ r.pathResult = Allowed(<<"No new commits to check">>)
        /\ ~r.validated.ok => r.validated.error[1] # "Changes to protected paths detected"

\* C36 witness: the base branch holds the change of g/c and its revert, the push brings
\* the commit before the revert: the diff between the two touches the protected g/c.
C36_Witness ==
  /\ call.fn = "validateProtectedPaths"
  /\ call.config.protected_paths = <<PatProtectedDir>>
  /\ BaseOf = CommitRevert
  /\ call.update.newSha = CommitSneaky
  /\ ProtectedDiff(CommitRevert, CommitSneaky, <<PatProtectedDir>>) # {}
  /\ \E r \in ret : r.pathResult.allowed /\ r.validated.ok

\* The message of the check when the base branch does not resolve.
BaseNotFound ==
  Rejected(<<"Base branch not found. Cannot validate protected paths.", call.config.base_branch>>)

\* C37: with protected paths configured, the check rejects every update that is not a
\* delete with `Base branch origin/<base_branch> not found. Cannot validate protected
\* paths.` when origin/<base_branch> does not resolve, and that message is the error of
\* the update when it got past the earlier checks; with no protected path or for a
\* delete the check accepts whether the base branch resolves or not.
C37_BaseBranchNotFound ==
  \A r \in ret :
    call.fn = "validateProtectedPaths" =>
      /\ ( /\ call.config.protected_paths # <<>>
           /\ call.update.newSha # ZERO_SHA
           /\ BaseOf = ZERO_SHA ) =>
             /\ r.pathResult = BaseNotFound
             /\ ~r.validated.ok
             /\ \/ r.validated.error = BaseNotFound.message
                \/ ~validateForcePush(call.update, call.config).allowed
                \/ ~checkUpstreamDivergence(call.update, call.origin).allowed
      /\ call.config.protected_paths = <<>> =>
           r.pathResult = Allowed(<<"No protected paths configured">>)
      /\ (call.config.protected_paths # <<>> /\ call.update.newSha = ZERO_SHA) =>
           r.pathResult = Allowed(<<"Branch deletion - no path check needed">>)

\* C37 witness: a new branch is pushed to a mirror without origin/main and is rejected
\* by the protected-path check alone.
C37_Witness ==
  /\ call.fn = "validateProtectedPaths"
  /\ call.config.protected_paths = <<PatProtectedDir>>
  /\ call.update = [oldSha |-> ZERO_SHA, newSha |-> CommitFeature, refName |-> RefsHeads \o AgentX]
  /\ BaseOf = ZERO_SHA
  /\ \E r \in ret : ~r.validated.ok /\ r.validated.error = BaseNotFound.message

(***************************************************************************)
(* Claims about the hook and the lock                                      *)
(***************************************************************************)
\* The calls whose continuation is queued or that await the promise of some call.
Suspended == {mq[i] : i \in 1..Len(mq)} \cup UNION {{waiters[d][i] : i \in 1..Len(waiters[d])} : d \in Calls}

\* C38: the pre-receive hook never acquires or waits on the per-repo lock: while the hook
\* of a push runs, the request of that push holds the lock of its repo and awaits its
\* backend, not a lock, and the hook can run to its exit whatever the lock map holds, so
\* hook and lock holder never wait for each other.
C38_HookNeverWaitsForLock ==
  \A c \in Calls :
    child[c] = "hook" =>
      /\ pc[c] = "backend"
      /\ locks[repoOf[c]] = c
      /\ c \notin Suspended
      /\ ENABLED (HookExit(c, 0) /\ UNCHANGED <<hookVars, mirVars, fnVars>>)
      /\ ENABLED (HookExit(c, 1) /\ UNCHANGED <<hookVars, mirVars, fnVars>>)

\* C38 witness: the hook of a push runs while its request holds the lock and another
\* request for the same repo waits for that lock.
C38_Witness ==
  \E c, d \in Calls :
    /\ child[c] = "hook" /\ locks[repoOf[c]] = c
    /\ pc[d] = "waiting" /\ repoOf[d] = repoOf[c] /\ c \in waitedOn[d]

(***************************************************************************)
(* Claims about the effects of pass 1                                      *)
(***************************************************************************)
\* The git commands that only read the repository.
GitQueries == {"merge-base", "rev-parse", "rev-list", "diff"}

\* The entries of the trace up to the first push, that push included.
UpToFirstPush == {k \in 1..Len(trace) : \A j \in 1..(k - 1) : trace[j].op = "validate"}

\* C39: pass 1 is read-only: every git command a validation runs is one of merge-base,
\* rev-parse, rev-list and diff, and until the first push of pass 2 the mirror's refs and
\* upstream's refs are those the hook started with, whether the validations succeed or
\* fail.
C39_Pass1ReadOnly ==
  /\ \A k \in Validations :
       LET cmds == Pass1Commands(trace[k].update, config, trace[k].mirror)
       IN \A i \in 1..Len(cmds) : cmds[i] \in GitQueries
  /\ \A k \in UpToFirstPush : trace[k].mirror = trace[1].mirror
  /\ Pushes = {} =>
       /\ upstream = upstream0
       /\ trace # <<>> => origin = trace[1].mirror

\* C39 witness: a batch was rejected at the gate after a validation that ran all five
\* commands and succeeded, and one that failed; no ref has moved.
C39_Witness ==
  /\ hpc = "returned"
  /\ Pushes = {}
  /\ upstream = upstream0
  /\ \E k, f \in Validations :
       /\ trace[k].success /\ ~trace[f].success
       /\ Pass1Commands(trace[k].update, config, trace[k].mirror)
            = <<"merge-base", "rev-parse", "rev-parse", "rev-list", "diff">>
       /\ origin = trace[k].mirror

(***************************************************************************)
(* Claims about the mirror after a push that failed half-way               *)
(***************************************************************************)
\* The last push of the repo was rejected in pass 2 after an update had been forwarded.
Forwarded == {k \in Pushes : trace[k].success}
RejectedHalfWay ==
  /\ hpc = "off"
  /\ exitCode = 1
  /\ Forwarded # {}
  /\ \E k \in Pushes : ~trace[k].success

\* C40: after a push that was rejected in pass 2 when some of its updates had been
\* forwarded, the next successful sync makes the mirror's refs/heads/* equal to
\* upstream's refs/heads/*: every forwarded update that upstream still holds is then in
\* the mirror.
C40_SyncAfterPartialPush ==
  [][ (RejectedHalfWay /\ mpc = "idle" /\ mpc' = "synced") =>
        /\ heads' = HeadsOf(upstream')
        /\ \A k \in Forwarded : \A b \in BranchNames :
             (trace[k].target = {RefsHeads \o b} /\ upstream[RefsHeads \o b] = trace[k].args.src)
               => heads'[b] = trace[k].args.src ]_vars

\* C40 witness: the sync after such a push has given the mirror a branch at the oid the
\* failed push had forwarded, which the mirror did not have when that push began.
C40_Witness ==
  /\ RejectedHalfWay
  /\ mpc = "synced"
  /\ heads = HeadsOf(upstream)
  /\ \E k \in Forwarded : \E b \in BranchNames :
       /\ trace[k].target = {RefsHeads \o b}
       /\ trace[k].args.form # "delete"
       /\ heads[b] = trace[k].args.src
       /\ upstream0[RefsHeads \o b] # trace[k].args.src

====
